---- MODULE Spec2Model ----
(***************************************************************************)
(* A model of the matching/allocation core of bcx_comic_lister:            *)
(*   core/clz_parser.py       (catalog rows -> ComicRecord)                *)
(*   core/image_allocator.py  (filenames -> ImageAsset, allocate_images)   *)
(*   workflows/ebay_csv_workflow.py (group allocation over hosted URLs)    *)
(*   core/ebay_writer.py, core/failure_writer.py (the failed outputs)      *)
(*                                                                         *)
(* Text is a sequence of one-character strings, so that parsing,          *)
(* normalisation and sorting are computed character by character the way  *)
(* the Python code computes them.                                          *)
(***************************************************************************)
EXTENDS Integers, Sequences, FiniteSets, TLC

(***************************************************************************)
(* Characters                                                              *)
(***************************************************************************)
Range(s) == { s[i] : i \in 1..Len(s) }

LowerChars == <<"a","b","c","d","e","f","g","h","i","j","k","l","m",
                "n","o","p","q","r","s","t","u","v","w","x","y","z">>
UpperChars == <<"A","B","C","D","E","F","G","H","I","J","K","L","M",
                "N","O","P","Q","R","S","T","U","V","W","X","Y","Z">>
DigitChars == <<"0","1","2","3","4","5","6","7","8","9">>

\* The characters of the model in code-point order (what Python's string
\* comparison uses).
CharOrder == <<" ", "!", "#", "$", "(", ")", "*", "+", ",", "-", ".", "/">>
             \o DigitChars \o <<":">> \o UpperChars \o <<"_">> \o LowerChars
             \o <<"|", "U+007F">>

IndexIn(seq, c) == CHOOSE i \in 1..Len(seq) : seq[i] = c

Ord(c) == IndexIn(CharOrder, c)

IsDigit(c) == c \in Range(DigitChars)
IsLower(c) == c \in Range(LowerChars)
IsUpper(c) == c \in Range(UpperChars)
IsLetter(c) == IsLower(c) \/ IsUpper(c)
IsSpace(c) == c = " "
\* \w of Python's re: letters, digits and underscore.
IsWord(c) == IsLetter(c) \/ IsDigit(c) \/ c = "_"

LowerCh(c) == IF IsUpper(c) THEN LowerChars[IndexIn(UpperChars, c)] ELSE c
UpperCh(c) == IF IsLower(c) THEN UpperChars[IndexIn(LowerChars, c)] ELSE c

\* str.lower() / str.upper()
Lower(s) == [i \in 1..Len(s) |-> LowerCh(s[i])]
Upper(s) == [i \in 1..Len(s) |-> UpperCh(s[i])]

\* s[i:] with i a 1-based position; empty when i is past the end.
From(s, i) == IF i > Len(s) THEN << >> ELSE SubSeq(s, i, Len(s))

\* str.strip(): leading and trailing whitespace removed.
RECURSIVE LStrip(_)
LStrip(s) == IF s # << >> /\ IsSpace(Head(s)) THEN LStrip(Tail(s)) ELSE s
RECURSIVE RStrip(_)
RStrip(s) == IF s # << >> /\ IsSpace(s[Len(s)])
             THEN RStrip(SubSeq(s, 1, Len(s) - 1)) ELSE s
Strip(s) == RStrip(LStrip(s))

\* str.strip("_")
RECURSIVE StripUnderscore(_)
StripUnderscore(s) ==
    IF s # << >> /\ Head(s) = "_" THEN StripUnderscore(Tail(s))
    ELSE IF s # << >> /\ s[Len(s)] = "_"
         THEN StripUnderscore(SubSeq(s, 1, Len(s) - 1))
    ELSE s

\* re.sub(r"\s+", " ", s): every run of whitespace becomes one space.
RECURSIVE CollapseSpaces(_)
CollapseSpaces(s) ==
    IF s = << >> THEN << >>
    ELSE IF IsSpace(Head(s))
         THEN <<" ">> \o CollapseSpaces(LStrip(s))
    ELSE <<Head(s)>> \o CollapseSpaces(Tail(s))

\* The end (exclusive) of the longest run of characters satisfying a class,
\* starting at position i.
RECURSIVE DigitRunEnd(_, _)
DigitRunEnd(s, i) ==
    IF i <= Len(s) /\ IsDigit(s[i]) THEN DigitRunEnd(s, i + 1) ELSE i
RECURSIVE SpaceRunEnd(_, _)
SpaceRunEnd(s, i) ==
    IF i <= Len(s) /\ IsSpace(s[i]) THEN SpaceRunEnd(s, i + 1) ELSE i
RECURSIVE LetterRunEnd(_, _)
LetterRunEnd(s, i) ==
    IF i <= Len(s) /\ IsLetter(s[i]) THEN LetterRunEnd(s, i + 1) ELSE i

\* int("0012") = 12
RECURSIVE ToInt(_)
ToInt(ds) ==
    IF ds = << >> THEN 0
    ELSE 10 * ToInt(SubSeq(ds, 1, Len(ds) - 1))
         + (IndexIn(DigitChars, ds[Len(ds)]) - 1)

\* str(n) for n >= 0
RECURSIVE ToStr(_)
ToStr(n) ==
    IF n < 10 THEN <<DigitChars[n + 1]>>
    ELSE ToStr(n \div 10) \o <<DigitChars[(n % 10) + 1]>>

\* Python's comparison of two strings: s < t.
RECURSIVE StrLess(_, _)
StrLess(s, t) ==
    IF t = << >> THEN FALSE
    ELSE IF s = << >> THEN TRUE
    ELSE IF Head(s) = Head(t) THEN StrLess(Tail(s), Tail(t))
    ELSE Ord(Head(s)) < Ord(Head(t))

\* str.join
RECURSIVE Join(_, _)
Join(sep, parts) ==
    IF parts = << >> THEN << >>
    ELSE IF Len(parts) = 1 THEN parts[1]
    ELSE parts[1] \o sep \o Join(sep, Tail(parts))

\* [p for p in s.split(sep) if p]
RECURSIVE SplitNonEmpty(_, _)
SplitNonEmpty(s, sep) ==
    IF s = << >> THEN << >>
    ELSE IF Head(s) = sep THEN SplitNonEmpty(Tail(s), sep)
    ELSE LET n == CHOOSE k \in 1..Len(s) :
                      /\ \A j \in 1..k : s[j] # sep
                      /\ (k = Len(s) \/ s[k + 1] = sep)
         IN <<SubSeq(s, 1, n)>> \o SplitNonEmpty(From(s, n + 1), sep)

(***************************************************************************)
(* Key normaliser (core/image_allocator.py)                                *)
(***************************************************************************)
\* s.replace("_", " ").replace("-", " ")
SeparatorsToSpaces(s) ==
    [i \in 1..Len(s) |-> IF s[i] \in {"_", "-"} THEN " " ELSE s[i]]

\* _NON_ALNUM_RE.sub("", s): drop what is not a letter, a digit or whitespace.
KeepAlnumSpace(s) ==
    SelectSeq(s, LAMBDA c : IsLetter(c) \/ IsDigit(c) \/ IsSpace(c))

\* normalize_series without the lower-casing of line 161.
NormalizeKeepingCase(text) ==
    IF text = << >> THEN << >>
    ELSE Strip(CollapseSpaces(KeepAlnumSpace(SeparatorsToSpaces(text))))

normalize_series(text) ==
    IF text = << >> THEN << >>
    ELSE Strip(CollapseSpaces(KeepAlnumSpace(SeparatorsToSpaces(Lower(text)))))

\* The result of a parser that may return None.
NoIssue == [ok |-> FALSE, number |-> 0, suffix |-> << >>]

\* _ISSUE_RE = ^(\d+)([a-zA-Z]*)$ , matched against the whole token.
parse_issue_token(issue_token) ==
    LET d == DigitRunEnd(issue_token, 1)
        l == LetterRunEnd(issue_token, d)
    IN IF d > 1 /\ l = Len(issue_token) + 1
       THEN [ok |-> TRUE,
             number |-> ToInt(SubSeq(issue_token, 1, d - 1)),
             suffix |-> Upper(From(issue_token, d))]
       ELSE NoIssue

\* Path(name).stem : the name without its last suffix; a dot that starts or
\* ends the name does not begin a suffix.
Stem(name) ==
    LET dots == { i \in 1..Len(name) : name[i] = "." }
    IN IF dots = {} THEN name
       ELSE LET i == CHOOSE d \in dots : \A e \in dots : e <= d
            IN IF 1 < i /\ i < Len(name) THEN SubSeq(name, 1, i - 1) ELSE name

\* Path(name).suffix
Suffix(name) == From(name, Len(Stem(name)) + 1)

\* _VOL_TOKEN_RE = ^v(\d+)$ , case-insensitive
IsVolToken(p) ==
    /\ Len(p) >= 2
    /\ LowerCh(p[1]) = "v"
    /\ DigitRunEnd(p, 2) = Len(p) + 1

\* _YEAR_TOKEN_RE = ^(19\d{2}|20\d{2})$
IsYearToken(t) ==
    /\ Len(t) = 4
    /\ <<t[1], t[2]>> \in {<<"1", "9">>, <<"2", "0">>}
    /\ IsDigit(t[3]) /\ IsDigit(t[4])

NoImageKey == [ok |-> FALSE, series_norm |-> << >>, volume |-> 0,
               issue_number |-> 0, issue_suffix |-> << >>]

\* parse_image_filename without the year filter of line 219.
ParseKeepingYears(file_path) ==
    LET name == Stem(file_path)
        parts == SplitNonEmpty(name, "_")
        vols == { i \in 1..Len(parts) : IsVolToken(parts[i]) }
        hasVol == vols # {}
        \* 1-based position of the first volume token
        vol_idx == IF hasVol THEN CHOOSE i \in vols : \A j \in vols : i <= j ELSE 0
        volume == IF hasVol THEN ToInt(Tail(parts[vol_idx])) ELSE 1
        issue_idx == IF hasVol THEN vol_idx + 1 ELSE Len(parts)
        issue_parsed == parse_issue_token(parts[issue_idx])
        series_tokens == IF hasVol THEN SubSeq(parts, 1, vol_idx - 1)
                         ELSE SubSeq(parts, 1, Len(parts) - 1)
        kept == series_tokens
    IN IF name = << >> THEN NoImageKey
       ELSE IF Len(parts) < 2 THEN NoImageKey
       ELSE IF issue_idx > Len(parts) THEN NoImageKey
       ELSE IF ~issue_parsed.ok THEN NoImageKey
       ELSE IF kept = << >> THEN NoImageKey
       ELSE [ok |-> TRUE,
             series_norm |-> normalize_series(Join(<<" ">>, kept)),
             volume |-> volume,
             issue_number |-> issue_parsed.number,
             issue_suffix |-> issue_parsed.suffix]

parse_image_filename(file_path) ==
    LET name == Stem(file_path)
        parts == SplitNonEmpty(name, "_")
        vols == { i \in 1..Len(parts) : IsVolToken(parts[i]) }
        hasVol == vols # {}
        \* 1-based position of the first volume token
        vol_idx == IF hasVol THEN CHOOSE i \in vols : \A j \in vols : i <= j ELSE 0
        volume == IF hasVol THEN ToInt(Tail(parts[vol_idx])) ELSE 1
        issue_idx == IF hasVol THEN vol_idx + 1 ELSE Len(parts)
        issue_parsed == parse_issue_token(parts[issue_idx])
        series_tokens == IF hasVol THEN SubSeq(parts, 1, vol_idx - 1)
                         ELSE SubSeq(parts, 1, Len(parts) - 1)
        kept == SelectSeq(series_tokens, LAMBDA t : ~IsYearToken(t))
    IN IF name = << >> THEN NoImageKey
       ELSE IF Len(parts) < 2 THEN NoImageKey
       ELSE IF issue_idx > Len(parts) THEN NoImageKey
       ELSE IF ~issue_parsed.ok THEN NoImageKey
       ELSE IF kept = << >> THEN NoImageKey
       ELSE [ok |-> TRUE,
             series_norm |-> normalize_series(Join(<<" ">>, kept)),
             volume |-> volume,
             issue_number |-> issue_parsed.number,
             issue_suffix |-> issue_parsed.suffix]

(***************************************************************************)
(* Catalog row parser (core/clz_parser.py)                                 *)
(***************************************************************************)
\* \b at position i of s (between s[i-1] and s[i]).
WordBoundary(s, i) ==
    LET before == i > 1 /\ i - 1 <= Len(s) /\ IsWord(s[i - 1])
        after == i >= 1 /\ i <= Len(s) /\ IsWord(s[i])
    IN before # after

\* A match of \bvol\.?\s*(\d+)\b starting exactly at position i:
\* [ok, dstart, end) with the digits in dstart..end-1.
VolPhraseAt(s, i) ==
    LET afterVol == i + 3
        afterDot == IF afterVol <= Len(s) /\ s[afterVol] = "."
                    THEN afterVol + 1 ELSE afterVol
        dstart == SpaceRunEnd(s, afterDot)
        dend == DigitRunEnd(s, dstart)
    IN IF /\ i + 2 <= Len(s)
          /\ WordBoundary(s, i)
          /\ Lower(SubSeq(s, i, i + 2)) = <<"v", "o", "l">>
          /\ dend > dstart
          /\ WordBoundary(s, dend)
       THEN [ok |-> TRUE, dstart |-> dstart, end |-> dend]
       ELSE [ok |-> FALSE, dstart |-> 0, end |-> 0]

RECURSIVE PunctRunEnd(_, _)
PunctRunEnd(s, i) ==
    IF i <= Len(s) /\ s[i] \in {",", "(", ")"} THEN PunctRunEnd(s, i + 1) ELSE i

\* re.sub(r"[,()]*\s*\bvol\.?\s*\d+\b", "", s, flags=IGNORECASE), scanning
\* from position i.
RECURSIVE StripVolPhrases(_, _)
StripVolPhrases(s, i) ==
    IF i > Len(s) THEN << >>
    ELSE LET m == VolPhraseAt(s, SpaceRunEnd(s, PunctRunEnd(s, i)))
         IN IF m.ok THEN StripVolPhrases(s, m.end)
            ELSE <<s[i]>> \o StripVolPhrases(s, i + 1)

_parse_series_and_volume(series_raw) ==
    LET hits == { i \in 1..Len(series_raw) : VolPhraseAt(series_raw, i).ok }
        m == VolPhraseAt(series_raw, CHOOSE i \in hits : \A j \in hits : i <= j)
        volume == IF hits = {} THEN 1
                  ELSE ToInt(SubSeq(series_raw, m.dstart, m.end - 1))
        series_clean == Strip(CollapseSpaces(Strip(StripVolPhrases(series_raw, 1))))
    IN IF series_raw = << >> THEN [series |-> << >>, volume |-> 1]
       ELSE [series |-> series_clean, volume |-> volume]

\* _ISSUE_RE = #?\s*(\d+)\s*([A-Za-z]?) , searched anywhere in the stripped
\* text: the leftmost match takes the first run of digits, then skips
\* whitespace, then takes one letter if one follows.
_parse_issue(issue_raw) ==
    LET s == Strip(issue_raw)
        ds == { i \in 1..Len(s) : IsDigit(s[i]) }
        d == CHOOSE i \in ds : \A j \in ds : i <= j
        e == DigitRunEnd(s, d)
        l == SpaceRunEnd(s, e)
    IN IF issue_raw = << >> \/ ds = {} THEN NoIssue
       ELSE [ok |-> TRUE,
             number |-> ToInt(SubSeq(s, d, e - 1)),
             suffix |-> IF l <= Len(s) /\ IsLetter(s[l])
                        THEN <<UpperCh(s[l])>> ELSE << >>]

\* The empty string.
E == << >>

\* Column names and literals of the code, as text.
S_Series == <<"S","e","r","i","e","s">>
S_IssueNr == <<"I","s","s","u","e"," ","N","r">>
S_Variant == <<"V","a","r","i","a","n","t">>
S_Title == <<"T","i","t","l","e">>
S_Publisher == <<"P","u","b","l","i","s","h","e","r">>
S_Characters == <<"C","h","a","r","a","c","t","e","r","s">>
S_CoverArtist == <<"C","o","v","e","r"," ","A","r","t","i","s","t">>
S_Grade == <<"G","r","a","d","e">>
S_ReleaseYear == <<"R","e","l","e","a","s","e"," ","Y","e","a","r">>
S_Era == <<"E","r","a">>
S_Universe == <<"U","n","i","v","e","r","s","e">>
S_Value == <<"V","a","l","u","e">>

\* Failure reasons.
S_UNPARSEABLE_ISSUE == <<"U","N","P","A","R","S","E","A","B","L","E","_",
                         "I","S","S","U","E">>
S_NO_MATCHING_IMAGE == <<"N","O","_","M","A","T","C","H","I","N","G","_",
                         "I","M","A","G","E">>
S_NoSafeMatch == <<"N","o"," ","s","a","f","e"," ","i","m","a","g","e"," ",
                   "v","a","r","i","a","n","t"," ","m","a","t","c","h">>
S_UNKNOWN == <<"U","N","K","N","O","W","N">>

REQUIRED_COLUMNS == <<S_Series, S_IssueNr>>

\* col_index = {h.strip(): i for i, h in enumerate(header)} , then
\* col_index.get(name): the last column carrying the name, 0 when none does.
ColIndex(header, col_name) ==
    LET hits == { i \in 1..Len(header) : Strip(header[i]) = col_name }
    IN IF hits = {} THEN 0 ELSE CHOOSE i \in hits : \A j \in hits : j <= i

HasRequiredColumns(header) ==
    \A k \in 1..Len(REQUIRED_COLUMNS) : ColIndex(header, REQUIRED_COLUMNS[k]) # 0

_safe_cell(row, header, col_name) ==
    LET idx == ColIndex(header, col_name)
    IN IF idx = 0 \/ idx > Len(row) THEN << >> ELSE Strip(row[idx])

\* idx0 is the 0-based position of the code.
_safe_cell_by_index(row, header, idx0, expected_name) ==
    IF idx0 < 0 \/ idx0 >= Len(header) \/ idx0 >= Len(row) THEN << >>
    ELSE IF Strip(header[idx0 + 1]) # expected_name THEN << >>
    ELSE Strip(row[idx0 + 1])

\* IsBlankRow that only knows the row without cells.
RowWithoutCells(row) == row = << >>

IsBlankRow(row) == \A i \in 1..Len(row) : Strip(row[i]) = << >>

(***************************************************************************)
(* Data model (core/image_allocator.py)                                    *)
(***************************************************************************)
\* RecordOfRow with the precedence of line 169 reversed.
RecordPreferringEmbedded(id, row, header) ==
    LET sv == _parse_series_and_volume(_safe_cell(row, header, S_Series))
        issue == _parse_issue(_safe_cell(row, header, S_IssueNr))
        variant_val == Upper(_safe_cell(row, header, S_Variant))
        by_index == _safe_cell_by_index(row, header, 8, S_Value)
        value_val == IF by_index # E THEN by_index
                     ELSE _safe_cell(row, header, S_Value)
    IN [id |-> id,
        series_raw |-> sv.series,
        series_norm |-> normalize_series(sv.series),
        volume |-> sv.volume,
        issue_number |-> IF issue.ok THEN issue.number ELSE 0,
        issue_suffix |-> IF ~issue.ok THEN E
                         ELSE IF issue.suffix # E THEN issue.suffix
                         ELSE variant_val,
        raw_title |-> _safe_cell(row, header, S_Title),
        clz_row |-> row,
        publisher |-> _safe_cell(row, header, S_Publisher),
        release_year |-> _safe_cell(row, header, S_ReleaseYear),
        publication_year |-> E,
        grade |-> _safe_cell(row, header, S_Grade),
        era |-> _safe_cell(row, header, S_Era),
        universe |-> _safe_cell(row, header, S_Universe),
        cover_artist |-> _safe_cell(row, header, S_CoverArtist),
        characters |-> _safe_cell(row, header, S_Characters),
        value |-> value_val,
        status |-> IF issue.ok THEN "PENDING" ELSE "FAILED",
        failure_reason |-> IF issue.ok THEN E ELSE S_UNPARSEABLE_ISSUE,
        allocated_image_ids |-> << >>,
        image_url |-> E,
        unused_image_urls |-> E,
        title_suffix |-> E]

\* ComicRecord as load_clz_csv constructs it for one non-blank row; id is
\* len(comics) + 1.
RecordOfRow(id, row, header) ==
    LET sv == _parse_series_and_volume(_safe_cell(row, header, S_Series))
        issue == _parse_issue(_safe_cell(row, header, S_IssueNr))
        variant_val == Upper(_safe_cell(row, header, S_Variant))
        by_index == _safe_cell_by_index(row, header, 8, S_Value)
        value_val == IF by_index # E THEN by_index
                     ELSE _safe_cell(row, header, S_Value)
    IN [id |-> id,
        series_raw |-> sv.series,
        series_norm |-> normalize_series(sv.series),
        volume |-> sv.volume,
        issue_number |-> IF issue.ok THEN issue.number ELSE 0,
        issue_suffix |-> IF ~issue.ok THEN E
                         ELSE IF variant_val # E THEN variant_val
                         ELSE issue.suffix,
        raw_title |-> _safe_cell(row, header, S_Title),
        clz_row |-> row,
        publisher |-> _safe_cell(row, header, S_Publisher),
        release_year |-> _safe_cell(row, header, S_ReleaseYear),
        publication_year |-> E,
        grade |-> _safe_cell(row, header, S_Grade),
        era |-> _safe_cell(row, header, S_Era),
        universe |-> _safe_cell(row, header, S_Universe),
        cover_artist |-> _safe_cell(row, header, S_CoverArtist),
        characters |-> _safe_cell(row, header, S_Characters),
        value |-> value_val,
        status |-> IF issue.ok THEN "PENDING" ELSE "FAILED",
        failure_reason |-> IF issue.ok THEN E ELSE S_UNPARSEABLE_ISSUE,
        allocated_image_ids |-> << >>,
        image_url |-> E,
        unused_image_urls |-> E,
        title_suffix |-> E]

\* The loop of load_clz_csv over the data rows: blank rows are skipped, every
\* other row appends one record.
RECURSIVE LoadRows(_, _, _)
LoadRows(data_rows, header, comics) ==
    IF data_rows = << >> THEN comics
    ELSE IF IsBlankRow(Head(data_rows))
         THEN LoadRows(Tail(data_rows), header, comics)
    ELSE LoadRows(Tail(data_rows), header,
                  Append(comics, RecordOfRow(Len(comics) + 1, Head(data_rows), header)))

\* load_clz_csv for a header that has the required columns.
load_clz_csv(header, data_rows) == LoadRows(data_rows, header, << >>)

\* ComicRecord.with_image / with_failure: dataclasses.replace, a new record.
with_image(comic, image_url, title_suffix) ==
    [comic EXCEPT !.status = "MATCHED",
                  !.image_url = image_url,
                  !.title_suffix = title_suffix]

with_failure(comic, reason, unused_urls) ==
    [comic EXCEPT !.status = "FAILED",
                  !.failure_reason = IF reason = E THEN S_UNKNOWN ELSE reason,
                  !.unused_image_urls = unused_urls]

\* The receiver of with_image / with_failure after the call, were the copy
\* stored into it.
ReceiverOverwritten(comic, copy) == copy

\* The receiver of with_image / with_failure after the call:
\* dataclasses.replace builds a new object and assigns nothing to self.
ReceiverAfterCopy(comic, copy) == comic

\* The record list after copies of the records at the positions members were
\* made (copies[k] is the copy of records[members[k]]).
ReceiversAfter(records, members, copies) ==
    [i \in 1..Len(records) |->
        IF \E k \in 1..Len(copies) : members[k] = i
        THEN ReceiverAfterCopy(records[i],
                 copies[CHOOSE k \in 1..Len(copies) : members[k] = i])
        ELSE records[i]]

KeyOf(x) == <<x.series_norm, x.volume, x.issue_number>>

\* index_images: one ImageAsset per path whose name parses; the uuid4 id is
\* modelled by the position of the path in the input, which is as unique.
RECURSIVE IndexFrom(_, _)
IndexFrom(image_paths, k) ==
    IF k > Len(image_paths) THEN << >>
    ELSE LET parsed == parse_image_filename(image_paths[k])
         IN IF ~parsed.ok THEN IndexFrom(image_paths, k + 1)
            ELSE <<[id |-> k,
                    filename |-> image_paths[k],
                    series_norm |-> parsed.series_norm,
                    volume |-> parsed.volume,
                    issue_number |-> parsed.issue_number,
                    issue_suffix |-> parsed.issue_suffix,
                    used |-> FALSE]>> \o IndexFrom(image_paths, k + 1)

index_images(image_paths) == IndexFrom(image_paths, 1)

(***************************************************************************)
(* list.sort(key=...): a stable sort by a tuple of strings                 *)
(***************************************************************************)
RECURSIVE TupleLess(_, _)
TupleLess(a, b) ==
    IF a = << >> \/ b = << >> THEN a = << >> /\ b # << >>
    ELSE IF Head(a) = Head(b) THEN TupleLess(Tail(a), Tail(b))
    ELSE StrLess(Head(a), Head(b))

\* x goes after every element that is not greater than it.
RECURSIVE InsertByKey(_, _, _)
InsertByKey(x, sorted, keys) ==
    IF sorted = << >> THEN <<x>>
    ELSE IF TupleLess(keys[x], keys[Head(sorted)]) THEN <<x>> \o sorted
    ELSE <<Head(sorted)>> \o InsertByKey(x, Tail(sorted), keys)

RECURSIVE SortFrom(_, _, _)
SortFrom(k, sorted, keys) ==
    IF k > Len(keys) THEN sorted
    ELSE SortFrom(k + 1, InsertByKey(k, sorted, keys), keys)

\* The positions 1..Len(keys) in the order a stable sort by keys leaves them.
StableOrder(keys) == SortFrom(1, << >>, keys)

(***************************************************************************)
(* allocate_images (core/image_allocator.py)                               *)
(***************************************************************************)
\* buckets[key] before the sort (lines 258-261) is BucketInListOrder;
\* buckets[key] after the sort of line 264: the positions (in images) of the
\* assets with that key, ordered by (issue_suffix, filename.lower()); an
\* empty sequence for a key without bucket.
BucketInListOrder(imgs, key) ==
    SelectSeq([i \in 1..Len(imgs) |-> i], LAMBDA i : KeyOf(imgs[i]) = key)

Bucket(imgs, key) ==
    LET members == SelectSeq([i \in 1..Len(imgs) |-> i],
                             LAMBDA i : KeyOf(imgs[i]) = key)
        keys == [k \in 1..Len(members) |->
                    <<imgs[members[k]].issue_suffix,
                      Lower(imgs[members[k]].filename)>>]
        order == StableOrder(keys)
    IN [k \in 1..Len(members) |-> members[order[k]]]

\* Chosen without the test of the used flag: the first asset of the bucket.
ChosenIgnoringUsed(imgs, bucket) ==
    IF bucket = << >> THEN 0 ELSE bucket[1]

\* Chosen that looks at the first asset of the bucket only.
ChosenFirstOfBucketOnly(imgs, bucket) ==
    IF bucket = << >> \/ imgs[bucket[1]].used THEN 0 ELSE bucket[1]

\* The scan of lines 275-279: the position of the first asset of the bucket
\* that is not used, 0 when there is none.
Chosen(imgs, bucket) ==
    LET free == { k \in 1..Len(bucket) : ~imgs[bucket[k]].used }
    IN IF free = {} THEN 0
       ELSE bucket[CHOOSE k \in free : \A j \in free : k <= j]

(***************************************************************************)
(* Group allocation (workflows/ebay_csv_workflow.py)                       *)
(***************************************************************************)
\* Path(unquote(urlparse(url).path)).name for a URL without query, fragment,
\* parameters or percent escapes: what follows the last "/".
PathName(url) ==
    LET slashes == { i \in 1..Len(url) : url[i] = "/" }
    IN IF slashes = {} THEN url
       ELSE From(url, (CHOOSE i \in slashes : \A j \in slashes : j <= i) + 1)

EndsWithVi(stem) ==
    /\ Len(stem) >= 3
    /\ Lower(SubSeq(stem, Len(stem) - 2, Len(stem))) = <<"-", "v", "i">>

\* The key and variant of a hosted URL; ok = FALSE stands for None.
_parse_hosted_url(url) ==
    LET filename == PathName(url)
        stem == Stem(filename)
        cleaned == IF EndsWithVi(stem)
                   THEN SubSeq(stem, 1, Len(stem) - 3) \o Suffix(filename)
                   ELSE filename
        parsed_name == parse_image_filename(cleaned)
    IN IF url = E \/ filename = E THEN NoImageKey
       ELSE IF ~parsed_name.ok THEN NoImageKey
       ELSE [parsed_name EXCEPT !.issue_suffix = Upper(parsed_name.issue_suffix)]

\* Lines 83-90: the positions of the URLs that parse to one key, in input order.
KeyMembers(parsed, key) ==
    SelectSeq([i \in 1..Len(parsed) |-> i],
              LAMBDA i : parsed[i].ok /\ KeyOf(parsed[i]) = key)

\* Line 91: the entries of one key, sorted by variant (stable).
SortedByVariant(hosted_urls, parsed, m) ==
    LET order == StableOrder([k \in 1..Len(m) |-> <<parsed[m[k]].issue_suffix>>])
    IN [k \in 1..Len(m) |->
           [url |-> hosted_urls[m[order[k]]],
            variant |-> parsed[m[order[k]]].issue_suffix]]

\* images_by_key over the parsed URLs: one entry list per key some URL parses to.
KeyedImages(hosted_urls, parsed) ==
    [key \in { KeyOf(parsed[i]) : i \in { j \in 1..Len(parsed) : parsed[j].ok } } |->
        SortedByVariant(hosted_urls, parsed, KeyMembers(parsed, key))]

\* images_by_key after lines 83-91: for every key some URL parses to, the
\* {"url", "variant"} entries of that key in input order, then sorted by variant.
ImagesByKey(hosted_urls) ==
    KeyedImages(hosted_urls,
                [i \in 1..Len(hosted_urls) |-> _parse_hosted_url(hosted_urls[i])])

\* images_by_key.get(key, [])
ImagesFor(by_key, key) == IF key \in DOMAIN by_key THEN by_key[key] ELSE << >>

\* The loop of lines 93-107: a group is a maximal run of consecutive records
\* with equal key; members are positions in comics.
RECURSIVE GroupsFrom(_, _, _, _)
GroupsFrom(cs, k, done, current) ==
    IF k > Len(cs)
    THEN IF current # << >>
         THEN Append(done, [key |-> KeyOf(cs[Len(cs)]), members |-> current])
         ELSE done
    ELSE IF k = 1 \/ KeyOf(cs[k]) = KeyOf(cs[k - 1])
         THEN GroupsFrom(cs, k + 1, done, Append(current, k))
    ELSE GroupsFrom(cs, k + 1,
                    Append(done, [key |-> KeyOf(cs[k - 1]), members |-> current]),
                    <<k>>)

GroupRecords(cs) == GroupsFrom(cs, 1, << >>, << >>)

NoSelection == [ok |-> FALSE, images |-> << >>]

S_A == <<"A">>

HasDuplicates(seq) == \E i, j \in 1..Len(seq) : i < j /\ seq[i] = seq[j]

\* _select_images_for_group without the test of line 56 (two candidates with
\* the same variant tag).
SelectWithoutDuplicateCheck(imgs, group_size) ==
    LET a_imgs == SelectSeq(imgs, LAMBDA img : Upper(img.variant) = S_A)
        selected == SubSeq(imgs, 1, group_size)
        variants == [k \in 1..Len(selected) |-> Upper(selected[k].variant)]
    IN IF group_size <= 0 THEN NoSelection
       ELSE IF imgs = << >> THEN NoSelection
       ELSE IF group_size = 1
            THEN IF Len(imgs) = 1 THEN [ok |-> TRUE, images |-> <<imgs[1]>>]
                 ELSE IF Len(a_imgs) = 1 THEN [ok |-> TRUE, images |-> <<a_imgs[1]>>]
                 ELSE NoSelection
       ELSE IF Len(imgs) < group_size THEN NoSelection
       ELSE IF \E k \in 1..Len(variants) : variants[k] = E THEN NoSelection
       ELSE [ok |-> TRUE, images |-> selected]

\* _select_images_for_group that gives a single record the first image of the
\* pool whenever there is one.
SelectFirstForSingle(imgs, group_size) ==
    LET selected == SubSeq(imgs, 1, group_size)
        variants == [k \in 1..Len(selected) |-> Upper(selected[k].variant)]
    IN IF group_size <= 0 THEN NoSelection
       ELSE IF imgs = << >> THEN NoSelection
       ELSE IF group_size = 1 THEN [ok |-> TRUE, images |-> <<imgs[1]>>]
       ELSE IF Len(imgs) < group_size THEN NoSelection
       ELSE IF \E k \in 1..Len(variants) : variants[k] = E THEN NoSelection
       ELSE IF HasDuplicates(variants) THEN NoSelection
       ELSE [ok |-> TRUE, images |-> selected]

\* _select_images_for_group without the test of line 49 (fewer images than
\* records): the candidates are whatever images[:group_size] holds.
SelectWithoutCountCheck(imgs, group_size) ==
    LET a_imgs == SelectSeq(imgs, LAMBDA img : Upper(img.variant) = S_A)
        n == IF Len(imgs) < group_size THEN Len(imgs) ELSE group_size
        selected == SubSeq(imgs, 1, n)
        variants == [k \in 1..Len(selected) |-> Upper(selected[k].variant)]
    IN IF group_size <= 0 THEN NoSelection
       ELSE IF imgs = << >> THEN NoSelection
       ELSE IF group_size = 1
            THEN IF Len(imgs) = 1 THEN [ok |-> TRUE, images |-> <<imgs[1]>>]
                 ELSE IF Len(a_imgs) = 1 THEN [ok |-> TRUE, images |-> <<a_imgs[1]>>]
                 ELSE NoSelection
       ELSE IF \E k \in 1..Len(variants) : variants[k] = E THEN NoSelection
       ELSE IF HasDuplicates(variants) THEN NoSelection
       ELSE [ok |-> TRUE, images |-> selected]

_select_images_for_group(imgs, group_size) ==
    LET a_imgs == SelectSeq(imgs, LAMBDA img : Upper(img.variant) = S_A)
        selected == SubSeq(imgs, 1, group_size)
        variants == [k \in 1..Len(selected) |-> Upper(selected[k].variant)]
    IN IF group_size <= 0 THEN NoSelection
       ELSE IF imgs = << >> THEN NoSelection
       ELSE IF group_size = 1
            THEN IF Len(imgs) = 1 THEN [ok |-> TRUE, images |-> <<imgs[1]>>]
                 ELSE IF Len(a_imgs) = 1 THEN [ok |-> TRUE, images |-> <<a_imgs[1]>>]
                 ELSE NoSelection
       ELSE IF Len(imgs) < group_size THEN NoSelection
       ELSE IF \E k \in 1..Len(variants) : variants[k] = E THEN NoSelection
       ELSE IF HasDuplicates(variants) THEN NoSelection
       ELSE [ok |-> TRUE, images |-> selected]

S_Cvr == <<"C","v","r"," ">>

\* MatchedCopy with the record's own cover letter in the title suffix.
MatchedCopyOwnSuffix(comic, img, group_size) ==
    with_image(comic, img.url,
               IF group_size > 1 /\ comic.issue_suffix # E
               THEN S_Cvr \o Upper(comic.issue_suffix) ELSE E)

\* Lines 118-124 for one pair of zip(group, selected).
MatchedCopy(comic, img, group_size) ==
    LET v == Upper(img.variant)
        suffix == IF group_size > 1 /\ v # E THEN S_Cvr \o v ELSE E
    IN with_image(comic, img.url, suffix)

\* UnusedUrls without the filter on used_urls: every URL of the key.
AllUrls(imgs, used) ==
    Join(<<"|">>, [k \in 1..Len(imgs) |-> imgs[k].url])

\* Lines 126-127: the URLs of the key's images that are not in used_urls,
\* joined with "|".
UnusedUrls(imgs, used) ==
    LET unused == SelectSeq(imgs, LAMBDA img : img.url \notin used)
    IN Join(<<"|">>, [k \in 1..Len(unused) |-> unused[k].url])

(***************************************************************************)
(* Row assembly for the failed outputs (ComicRecord.to_ebay_row,           *)
(* core/ebay_writer.py, core/failure_writer.py)                            *)
(***************************************************************************)
IsLowerAlnum(c) == IsLower(c) \/ IsDigit(c)

\* re.sub(r"[^a-z0-9]+", "_", s): every run of other characters becomes "_".
RECURSIVE RunsToUnderscore(_)
RunsToUnderscore(s) ==
    IF s = << >> THEN << >>
    ELSE IF IsLowerAlnum(Head(s)) THEN <<Head(s)>> \o RunsToUnderscore(Tail(s))
    ELSE LET rest == Tail(s)
         IN IF rest # << >> /\ ~IsLowerAlnum(Head(rest))
            THEN RunsToUnderscore(rest)
            ELSE <<"_">> \o RunsToUnderscore(rest)

\* f"{n:04d}"
Pad4(n) ==
    LET d == ToStr(n)
    IN IF Len(d) >= 4 THEN d ELSE [i \in 1..(4 - Len(d)) |-> "0"] \o d

\* str.isprintable() of one character: the characters of the model's
\* alphabet are printable ASCII characters, but for the control character
\* DELETE, written "U+007F".
IsPrintable(c) == c \in Range(CharOrder) /\ c # "U+007F"

MaxTitleLen == 80

S_Vol == <<" ","V","o","l","."," ">>
S_Hash == <<" ","#">>
S_One == <<"1">>

\* ComicRecord.to_ebay_row: template column index (0-based) -> text.
to_ebay_row(comic) ==
    LET sku_base == StripUnderscore(RunsToUnderscore(Lower(comic.series_norm)))
        issue_part == Pad4(comic.issue_number) \o Upper(comic.issue_suffix)
        sku == sku_base \o <<"_", "v">> \o ToStr(comic.volume) \o <<"_">> \o issue_part
        own == Strip(comic.title_suffix)
        suffix == IF own = E /\ comic.issue_suffix # E
                  THEN S_Cvr \o Upper(comic.issue_suffix) ELSE own
        base == Strip(comic.series_raw \o S_Vol \o ToStr(comic.volume)
                      \o S_Hash \o ToStr(comic.issue_number))
        withSuffix == IF suffix # E THEN Strip(base \o <<" ">> \o suffix) ELSE base
        clean == SelectSeq(Strip(CollapseSpaces(withSuffix)), IsPrintable)
        title == IF Len(clean) > MaxTitleLen
                 THEN RStrip(SubSeq(clean, 1, MaxTitleLen)) ELSE clean
        fixed == [i \in {1, 4, 10, 43, 57} |->
                     CASE i = 1 -> sku
                       [] i = 4 -> title
                       [] i = 10 -> comic.series_raw
                       [] i = 43 -> ToStr(comic.issue_number)
                       [] i = 57 -> S_One]
    IN IF comic.raw_title # E THEN (33 :> comic.raw_title) @@ fixed ELSE fixed

S_TitleLabel == <<"*","T","i","t","l","e">>
S_PicURL == <<"P","i","c","U","R","L">>
S_StartPrice == <<"*","S","t","a","r","t","P","r","i","c","e">>
S_DispatchTimeMax == <<"*","D","i","s","p","a","t","c","h","T","i","m","e",
                       "M","a","x">>
S_Reason == <<"R","e","a","s","o","n">>
S_UnusedImageURLs == <<"U","n","u","s","e","d","_","I","m","a","g","e","_",
                       "U","R","L","s">>

TITLE_COLUMN_INDEX == 4
PICURL_COLUMN_INDEX == 46
START_PRICE_INDEX == 52
DISPATCH_TIME_MAX_INDEX == 65

\* The header row of a template that passes _load_template_rows: the four
\* checked positions carry their labels; the template of the model has 75
\* columns, the others unlabelled.
TemplateHeaders ==
    [i \in 1..75 |->
        CASE i - 1 = TITLE_COLUMN_INDEX -> S_TitleLabel
          [] i - 1 = PICURL_COLUMN_INDEX -> S_PicURL
          [] i - 1 = START_PRICE_INDEX -> S_StartPrice
          [] i - 1 = DISPATCH_TIME_MAX_INDEX -> S_DispatchTimeMax
          [] OTHER -> E]

\* Lines 245-249: a row of column_count blanks overlaid with to_ebay_row.
DynamicCells(comic, column_count) ==
    LET dynamic == to_ebay_row(comic)
    IN [i \in 1..column_count |->
           IF (i - 1) \in DOMAIN dynamic THEN dynamic[i - 1] ELSE E]

\* failed.csv as write_ebay_csvs writes it (lines 238-250).
EbayFailedCsv(failed, headers) ==
    [header |-> <<S_Reason, S_UnusedImageURLs>> \o headers,
     rows |-> [k \in 1..Len(failed) |->
                  <<failed[k].failure_reason, failed[k].unused_image_urls>>
                  \o DynamicCells(failed[k], Len(headers))]]

FAILURE_REASON_COLUMN == <<"F","a","i","l","u","r","e","R","e","a","s","o","n">>

\* A file that was not written.
NoFile == [header |-> << >>, rows |-> << >>]

\* write_failure_csv: nothing is written for an empty list; a record without
\* clz_row is skipped.
write_failure_csv(clz_header, failed_comics) ==
    LET with_row == SelectSeq(failed_comics, LAMBDA c : c.clz_row # << >>)
    IN IF failed_comics = << >> THEN NoFile
       ELSE [header |-> clz_header \o <<FAILURE_REASON_COLUMN>>,
             rows |-> [k \in 1..Len(with_row) |->
                          with_row[k].clz_row
                          \o <<IF with_row[k].failure_reason = E THEN S_UNKNOWN
                               ELSE with_row[k].failure_reason>>]]

(***************************************************************************)
(* Prices (core/ebay_writer.py)                                            *)
(***************************************************************************)
\* A Python float as the model holds it: a finite number in thousandths with
\* its sign (the sign of -0.0 is kept), a NaN, an infinity; NoFloat is None.
NoFloat == [kind |-> "none", neg |-> FALSE, mills |-> 0]
Number(neg, mills) == [kind |-> "num", neg |-> neg, mills |-> mills]

S_nan == <<"n","a","n">>
S_inf == <<"i","n","f">>
S_infinity == <<"i","n","f","i","n","i","t","y">>

\* The first three decimals of a fraction, as thousandths.
FractionMills(ds) ==
    ToInt(SubSeq(ds \o <<"0","0","0">>, 1, 3))

\* float(s) of a text: surrounding whitespace is ignored, then a sign, then
\* "nan", "inf" or "infinity" in any case, or digits with at most one decimal
\* point and a digit on one side of it; anything else raises (NoFloat). The
\* exponent and digit-group forms of float() are not among the inputs of the
\* model, nor are numbers with more than three decimals.
ParseFloat(text) ==
    LET s == Strip(text)
        signed == s # << >> /\ s[1] \in {"+", "-"}
        neg == signed /\ s[1] = "-"
        body == IF signed THEN Tail(s) ELSE s
        word == Lower(body)
        dots == { i \in 1..Len(body) : body[i] = "." }
        dot == IF dots = {} THEN Len(body) + 1 ELSE CHOOSE i \in dots : TRUE
        whole == SubSeq(body, 1, dot - 1)
        fraction == From(body, dot + 1)
    IN IF word = S_nan THEN [kind |-> "nan", neg |-> neg, mills |-> 0]
       ELSE IF word \in {S_inf, S_infinity} THEN [kind |-> "inf", neg |-> neg, mills |-> 0]
       ELSE IF /\ Cardinality(dots) <= 1
               /\ whole \o fraction # << >>
               /\ \A i \in 1..Len(whole) : IsDigit(whole[i])
               /\ \A i \in 1..Len(fraction) : IsDigit(fraction[i])
            THEN Number(neg, 1000 * ToInt(whole) + FractionMills(fraction))
       ELSE NoFloat

\* s.replace("$", "").replace(",", "").strip()
StripMoney(s) == Strip(SelectSeq(s, LAMBDA c : c \notin {"$", ","}))

\* f"{x:.2f}" of a float: the nearest hundredth (a tie goes to the even
\* hundredth when the float holds the decimal exactly; the inputs of the model
\* hold no other tie), "nan", "inf", "-inf".
FormatFloat(x) ==
    LET q == x.mills \div 10
        r == x.mills % 10
        cents == IF r > 5 \/ (r = 5 /\ q % 2 = 1) THEN q + 1 ELSE q
        frac == cents % 100
        digits == ToStr(cents \div 100) \o <<".">>
                  \o <<DigitChars[(frac \div 10) + 1], DigitChars[(frac % 10) + 1]>>
    IN IF x.kind = "nan" THEN S_nan
       ELSE IF x.kind = "inf" THEN (IF x.neg THEN <<"-">> ELSE << >>) \o S_inf
       ELSE (IF x.neg THEN <<"-">> ELSE << >>) \o digits

\* _parse_money_to_float of a text (lines 122-129).
_parse_money_to_float(val) ==
    IF Strip(val) = << >> THEN NoFloat ELSE ParseFloat(StripMoney(Strip(val)))

\* _format_money of a text (lines 107-114).
_format_money(val) ==
    LET x == _parse_money_to_float(val)
    IN IF x.kind = "none" THEN E ELSE FormatFloat(x)

\* v < m of two floats: false whenever one of them is a NaN.
FloatLess(v, m) ==
    LET signedMills(x) == IF x.neg THEN 0 - x.mills ELSE x.mills
    IN IF v.kind = "nan" \/ m.kind = "nan" THEN FALSE
       ELSE IF v.kind = "inf" THEN v.neg /\ ~(m.kind = "inf" /\ m.neg)
       ELSE IF m.kind = "inf" THEN ~m.neg
       ELSE signedMills(v) < signedMills(m)

\* _compute_start_price: row_value is the record's value (a text),
\* min_start_price a float or None.
_compute_start_price(row_value, min_start_price) ==
    IF min_start_price.kind = "none" THEN _format_money(row_value)
    ELSE IF _parse_money_to_float(row_value).kind = "none"
         THEN FormatFloat(min_start_price)
    ELSE IF FloatLess(_parse_money_to_float(row_value), min_start_price)
         THEN FormatFloat(min_start_price)
    ELSE FormatFloat(_parse_money_to_float(row_value))

\* The minimum of a run started from the window: its field holds "3.00".
DefaultMinimumPrice == Number(FALSE, 3000)

(***************************************************************************)
(* The ready output (core/ebay_writer.py)                                  *)
(***************************************************************************)
CHARACTER_INDEX == 11
PUBLISHER_INDEX == 14
PUBLICATION_YEAR_INDEX == 16
ERA_INDEX == 18
GRADE_INDEX == 20
UNIVERSE_INDEX == 24
COVER_ARTIST_INDEX == 26

\* The description literal, in pieces (no step of the code takes it apart);
\* the three pieces named U+.... are the characters with these code points.
DESCRIPTION_TEXT ==
    <<"This listing is part of a large comic book inventory upload.",
      " To efficiently process and make thousands of books ",
      "available, the image shown is a stock photo used for ",
      "cataloging and identification purposes. Higher value Near ",
      "Mint (NM) books and key issues will be updated with an image",
      " of the actual book in the order they are uploaded. If you ",
      "happen to view a listing before we get a chance to update ",
      "the image, feel free to message me for actual photos and I",
      "U+00E2", "U+20AC", "U+2122",
      "ll get them over to you as fast as I can. Buy with ",
      "confidence. Books are packaged securely with protective ",
      "materials to ensure safe delivery. Combined shipping is ",
      "available when purchasing multiple items. Your satisfaction ",
      "is important. If you are unhappy for any reason, simply ",
      "return the comic within 30 days for a no-questions-asked ",
      "refund.">>

\* 0-based template position -> fixed literal.
FIXED_BY_COLUMN_INDEX ==
    (0 :> <<"A","d","d"," ">>)
    @@ (2 :> <<"2","5","9","1","0","4">>)
    @@ (9 :> <<"3","0","0","0">>)
    @@ (12 :> <<"S","u","p","e","r","h","e","r","o","e","s">>)
    @@ (17 :> <<"S","i","n","g","l","e"," ","I","s","s","u","e">>)
    @@ (19 :> <<"C","o","m","i","c"," ","B","o","o","k">>)
    @@ (22 :> <<"U","S"," ","C","o","m","i","c","s">>)
    @@ (25 :> <<"B","o","a","r","d","e","d">>)
    @@ (28 :> <<"S","i","n","g","l","e"," ","I","s","s","u","e">>)
    @@ (29 :> <<"N","o">>)
    @@ (30 :> <<"N","o">>)
    @@ (31 :> <<"N","o">>)
    @@ (34 :> <<"C","o","l","o","r">>)
    @@ (36 :> <<"E","n","g","l","i","s","h">>)
    @@ (37 :> <<"U","n","i","t","e","d"," ","S","t","a","t","e","s"," ">>)
    @@ (40 :> <<"G","e","n","e","r","a","l"," ","A","u","d","i","e","n","c","e">>)
    @@ (49 :> DESCRIPTION_TEXT)
    @@ (50 :> <<"F","i","x","e","d","P","r","i","c","e">>)
    @@ (51 :> <<"G","T","C">>)
    @@ (59 :> <<"1","9","0","1","4">>)
    @@ (73 :> <<"S","i","n","g","l","e"," ","B","o","o","k"," ","-"," ","(","I",
              "D",":"," ","2","6","1","7","1","4","5","4","3","0","2","1",")">>)
    @@ (74 :> <<"R","e","t","u","r","n","s"," ","A","c","c","e","p","t","e","d",
              ",","S","e","l","l","e","r",",","3","0"," ","D","a","y","s",",",
              "M","o","n","e","y"," ","B","a","c","k",",","I","n"," ","-"," ",
              "(","I","D",":"," ","2","2","7","0","9","2","2","0","9","0","2",
              "1",")">>)

\* _VOL_STRIP_RE = [,()\-]*\s*\bvol\.?\s*\d+\b : the punctuation class of the
\* writer's pattern also holds the hyphen.
RECURSIVE DisplayPunctRunEnd(_, _)
DisplayPunctRunEnd(s, i) ==
    IF i <= Len(s) /\ s[i] \in {",", "(", ")", "-"}
    THEN DisplayPunctRunEnd(s, i + 1) ELSE i

\* _VOL_STRIP_RE.sub("", s), scanning from position i.
RECURSIVE VolStripSub(_, _)
VolStripSub(s, i) ==
    IF i > Len(s) THEN << >>
    ELSE LET m == VolPhraseAt(s, SpaceRunEnd(s, DisplayPunctRunEnd(s, i)))
         IN IF m.ok THEN VolStripSub(s, m.end)
            ELSE <<s[i]>> \o VolStripSub(s, i + 1)

\* s.rstrip(",")
RECURSIVE RStripCommas(_)
RStripCommas(s) ==
    IF s # << >> /\ s[Len(s)] = "," THEN RStripCommas(SubSeq(s, 1, Len(s) - 1))
    ELSE s

_series_display_name(series_raw) ==
    Strip(RStripCommas(Strip(CollapseSpaces(Strip(
        VolStripSub(Strip(series_raw), 1))))))

\* _get_attr_str of a text attribute: str(v).strip().
_get_attr_str(v) == Strip(v)

\* The parts of _build_title in their order, an absent part as the empty
\* text (lines 140-159).
TitleParts(row) ==
    LET release == _get_attr_str(row.release_year)
        year == IF release # E THEN release
                ELSE _get_attr_str(row.publication_year)
    IN << _series_display_name(_get_attr_str(row.series_raw)),
          <<"V","o","l","."," ">> \o ToStr(row.volume),
          <<"#">> \o ToStr(row.issue_number),
          _get_attr_str(row.title_suffix),
          IF year # E THEN <<"(">> \o year \o <<")">> ELSE E,
          _get_attr_str(row.publisher) >>

\* Line 161: the parts that are present, joined by single spaces.
JoinedTitle(row) ==
    Strip(Join(<<" ">>, SelectSeq(TitleParts(row), LAMBDA p : p # E)))

\* Line 162: title[:80].rstrip() if len(title) > 80 else title.
CutTitle(title) ==
    IF Len(title) > MaxTitleLen THEN RStrip(SubSeq(title, 1, MaxTitleLen))
    ELSE title

_build_title(row) == CutTitle(JoinedTitle(row))

\* Lines 211-226: the title, the requested dynamic cells, the start price and
\* the picture URL are stored into the row (a template that passed
\* _load_template_rows has more than 65 columns, so every position exists;
\* a record has no attribute "character").
WithRequestedDynamics(out, row, min_start_price) ==
    LET release == _get_attr_str(row.release_year)
    IN [out EXCEPT
          ![TITLE_COLUMN_INDEX + 1] = _build_title(row),
          ![CHARACTER_INDEX + 1] = _get_attr_str(row.characters),
          ![PUBLISHER_INDEX + 1] = _get_attr_str(row.publisher),
          ![PUBLICATION_YEAR_INDEX + 1] =
              IF release # E THEN release
              ELSE _get_attr_str(row.publication_year),
          ![ERA_INDEX + 1] = _get_attr_str(row.era),
          ![GRADE_INDEX + 1] = _get_attr_str(row.grade),
          ![UNIVERSE_INDEX + 1] = _get_attr_str(row.universe),
          ![COVER_ARTIST_INDEX + 1] = _get_attr_str(row.cover_artist),
          ![START_PRICE_INDEX + 1] =
              _compute_start_price(row.value, min_start_price),
          ![PICURL_COLUMN_INDEX + 1] = _get_attr_str(row.image_url) \o <<"|">>]

\* The row without the loop of lines 229-231.
WithoutFixedOverrides(out) == out

\* Lines 229-231: the fixed values, stored last, at the positions the row has.
WithFixedOverrides(out) ==
    [i \in 1..Len(out) |->
        IF (i - 1) \in DOMAIN FIXED_BY_COLUMN_INDEX
        THEN FIXED_BY_COLUMN_INDEX[i - 1] ELSE out[i]]

\* Lines 202-234: one row of ebay_ready.csv.
EbayReadyRow(row, column_count, min_start_price) ==
    [WithFixedOverrides(
        WithRequestedDynamics(DynamicCells(row, column_count), row,
                              min_start_price))
     EXCEPT ![DISPATCH_TIME_MAX_INDEX + 1] = E]

\* ebay_ready.csv as the list of its rows; the empty list is a file that was
\* not written.
NoReadyFile == << >>

\* Lines 197-236: the template's two rows, then one row per matched record.
EbayReadyCsv(ebay_rows, info_row, headers, min_start_price) ==
    <<info_row, headers>>
    \o [k \in 1..Len(ebay_rows) |->
           EbayReadyRow(ebay_rows[k], Len(headers), min_start_price)]

\* A template file: whether it exists, and its rows.
S_Info == <<"I","n","f","o">>
InfoRow(n) == [i \in 1..n |-> IF i = 1 THEN S_Info ELSE E]
StandardTemplate == [exists |-> TRUE, rows |-> <<InfoRow(75), TemplateHeaders>>]

\* What _load_template_rows raises or returns.
TemplateError == [ok |-> FALSE, info_row |-> << >>, headers |-> << >>]

\* header_row[idx] == label; a header without position idx raises IndexError.
LabelAt(header_row, idx, label) ==
    idx + 1 <= Len(header_row) /\ header_row[idx + 1] = label

\* _load_template_rows without the length and label checks of lines 78-88.
LoadTemplateUnchecked(template) ==
    IF ~template.exists \/ Len(template.rows) < 2 THEN TemplateError
    ELSE IF template.rows[1] = << >> \/ template.rows[2] = << >>
         THEN TemplateError
    ELSE [ok |-> TRUE, info_row |-> template.rows[1],
          headers |-> template.rows[2]]

\* _load_template_rows: a missing file, a missing or empty info or header
\* row, rows of different lengths and a wrong label all raise.
_load_template_rows(template) ==
    IF ~template.exists \/ Len(template.rows) < 2 THEN TemplateError
    ELSE IF template.rows[1] = << >> \/ template.rows[2] = << >>
         THEN TemplateError
    ELSE IF Len(template.rows[1]) # Len(template.rows[2]) THEN TemplateError
    ELSE IF ~LabelAt(template.rows[2], TITLE_COLUMN_INDEX, S_TitleLabel)
         THEN TemplateError
    ELSE IF ~LabelAt(template.rows[2], PICURL_COLUMN_INDEX, S_PicURL)
         THEN TemplateError
    ELSE IF ~LabelAt(template.rows[2], START_PRICE_INDEX, S_StartPrice)
         THEN TemplateError
    ELSE IF ~LabelAt(template.rows[2], DISPATCH_TIME_MAX_INDEX, S_DispatchTimeMax)
         THEN TemplateError
    ELSE [ok |-> TRUE, info_row |-> template.rows[1],
          headers |-> template.rows[2]]

(***************************************************************************)
(* Inputs                                                                  *)
(***************************************************************************)
\* The longest catalog (data rows) and the longest list of image names.
MaxComics == 4
MaxImages == 3

\* The catalog header of the runs: the two required columns.
CatalogHeader == <<S_Series, S_IssueNr>>

\* Catalog rows (Series, Issue Nr): issue 5 of series x with a cover letter,
\* and a row whose issue does not parse.
RowPool ==
    { <<<<"X">>, <<"#","5","A">>>>,
      <<<<"x">>, E>> }

\* Image names, read as local file names by index_images and as hosted URLs
\* by run_ebay_csv_workflow: two covers tagged A, one tagged B carrying the
\* host's "-vi" marker (not a parseable local name), one untagged cover and
\* an image of issue 0.
ImagePool ==
    { <<"x","_","5","A",".","p","n","g">>,
      <<"X","_","5","a",".","j","p","g">>,
      <<"x","_","5","B","-","v","i",".","j","p","g">>,
      <<"x","_","5",".","p","n","g">>,
      <<"x","_","0",".","p","n","g">> }

SeqsUpTo(S, n) == UNION { [1..k -> S] : k \in 0..n }

\* Lists without repetition: the image names of a run are distinct.
DistinctSeqsUpTo(S, n) ==
    { s \in SeqsUpTo(S, n) : \A i, j \in 1..Len(s) : s[i] = s[j] => i = j }

(***************************************************************************)
(* State                                                                   *)
(***************************************************************************)
VARIABLES
    clz_header,             \* the catalog's header row
    clz_rows,               \* the catalog's data rows
    image_names,            \* image paths / hosted URLs
    pc,                     \* where the run is
    comics,                 \* the ComicRecord objects of load_clz_csv
    images,                 \* the ImageAsset objects of index_images
    idx,                    \* position of the loop over comics / groups
    matched,                \* allocate_images: positions of the matched records
    failed,                 \* allocate_images: positions of the failed records
    ledger_image_to_comic,
    ledger_comic_to_images,
    images_by_key,          \* workflow: key -> [url, variant] entries
    groups,                 \* workflow: [key, members]
    ebay_rows,              \* workflow: matched copies
    failed_rows,            \* workflow: failed copies
    used_urls,
    ebay_template,          \* the template file of write_ebay_csvs
    min_start_price,        \* the minimum start price of the run (or none)
    ebay_ready_csv,         \* ebay_ready.csv of write_ebay_csvs
    failed_csv,             \* failed.csv of write_ebay_csvs
    failure_csv,            \* the file of write_failure_csv
    op,                     \* a direct call of one function: its name
    args,                   \* the arguments of the call
    result                  \* what the call returned

vars == <<clz_header, clz_rows, image_names, pc, comics, images, idx, matched,
          failed, ledger_image_to_comic, ledger_comic_to_images, images_by_key,
          groups, ebay_rows, failed_rows, used_urls, failed_csv, failure_csv,
          op, args, result, ebay_template, min_start_price, ebay_ready_csv>>

inputs == <<clz_header, clz_rows, image_names, ebay_template, min_start_price>>
allocVars == <<images, matched, failed, ledger_image_to_comic,
               ledger_comic_to_images, failure_csv>>
ebayVars == <<images_by_key, groups, ebay_rows, failed_rows, used_urls,
              ebay_ready_csv, failed_csv>>
callVars == <<op, args, result>>

Init ==
    /\ clz_header = CatalogHeader
    /\ clz_rows \in SeqsUpTo(RowPool, MaxComics)
    /\ image_names \in DistinctSeqsUpTo(ImagePool, MaxImages)
    /\ ebay_template = StandardTemplate
    /\ min_start_price = DefaultMinimumPrice
    /\ ebay_ready_csv = NoReadyFile
    /\ pc = "start"
    /\ comics = << >>
    /\ images = << >>
    /\ idx = 0
    /\ matched = << >>
    /\ failed = << >>
    /\ ledger_image_to_comic = << >>
    /\ ledger_comic_to_images = << >>
    /\ images_by_key = << >>
    /\ groups = << >>
    /\ ebay_rows = << >>
    /\ failed_rows = << >>
    /\ used_urls = {}
    /\ failed_csv = NoFile
    /\ failure_csv = NoFile
    /\ op = "workflow"
    /\ args = << >>
    /\ result = << >>

(***************************************************************************)
(* Workflow A: load_clz_csv, index_images, allocate_images,                *)
(* write_failure_csv                                                       *)
(***************************************************************************)
\* The ledger without the entry of line 292.
LedgerWithoutImage(ledger, asset_id, comic_id) == ledger

\* Line 292: ledger_image_to_comic[chosen.id] = comic.id.
LedgerWithImage(ledger, asset_id, comic_id) == (asset_id :> comic_id) @@ ledger

\* The records and assets are built and allocate_images is entered
\* (lines 258-269).
AllocateStart ==
    /\ pc = "start"
    /\ HasRequiredColumns(clz_header)
    /\ comics' = load_clz_csv(clz_header, clz_rows)
    /\ images' = index_images(image_names)
    /\ idx' = 1
    /\ matched' = << >>
    /\ failed' = << >>
    /\ ledger_image_to_comic' = << >>
    /\ ledger_comic_to_images' = << >>
    /\ pc' = "allocate"
    /\ UNCHANGED <<inputs, callVars, ebayVars, failure_csv>>

\* One pass of the loop of line 271 that finds an unused asset (lines 287-293).
AllocateMatch ==
    /\ pc = "allocate"
    /\ idx <= Len(comics)
    /\ LET comic == comics[idx]
           chosen == Chosen(images, Bucket(images, KeyOf(comic)))
           asset_id == images[chosen].id
       IN /\ chosen # 0
          /\ images' = [images EXCEPT ![chosen].used = TRUE]
          /\ comics' = [comics EXCEPT
                           ![idx].status = "MATCHED",
                           ![idx].allocated_image_ids = Append(@, asset_id)]
          /\ matched' = Append(matched, idx)
          /\ ledger_image_to_comic' =
                 LedgerWithImage(ledger_image_to_comic, asset_id, comic.id)
          /\ ledger_comic_to_images' =
                 IF comic.id \in DOMAIN ledger_comic_to_images
                 THEN [ledger_comic_to_images EXCEPT ![comic.id] = Append(@, asset_id)]
                 ELSE (comic.id :> <<asset_id>>) @@ ledger_comic_to_images
    /\ idx' = idx + 1
    /\ UNCHANGED <<inputs, callVars, pc, failed, ebayVars, failure_csv>>

\* One pass of the loop that finds none (lines 281-285).
AllocateFail ==
    /\ pc = "allocate"
    /\ idx <= Len(comics)
    /\ Chosen(images, Bucket(images, KeyOf(comics[idx]))) = 0
    /\ comics' = [comics EXCEPT ![idx].status = "FAILED",
                                ![idx].failure_reason = S_NO_MATCHING_IMAGE]
    /\ failed' = Append(failed, idx)
    /\ idx' = idx + 1
    /\ UNCHANGED <<inputs, callVars, pc, images, matched, ledger_image_to_comic,
                   ledger_comic_to_images, ebayVars, failure_csv>>

\* The loop is over: allocate_images returns its AllocationResult.
AllocateReturn ==
    /\ pc = "allocate"
    /\ idx > Len(comics)
    /\ pc' = "allocated"
    /\ UNCHANGED <<inputs, callVars, comics, idx, allocVars, ebayVars>>

\* The records of AllocationResult.failed (the list holds the objects).
FailedRecords == [k \in 1..Len(failed) |-> comics[failed[k]]]

\* write_failure_csv over the failed list of the allocation.
WriteFailureCsv ==
    /\ pc = "allocated"
    /\ failure_csv' = write_failure_csv(clz_header, FailedRecords)
    /\ pc' = "done_allocate"
    /\ UNCHANGED <<inputs, callVars, comics, idx, images, matched, failed,
                   ledger_image_to_comic, ledger_comic_to_images, ebayVars>>

(***************************************************************************)
(* Workflow B: run_ebay_csv_workflow                                       *)
(***************************************************************************)
\* Lines 71-111: the catalog is loaded, the hosted URLs are parsed, bucketed
\* and sorted, the records are grouped.
EbayStart ==
    /\ pc = "start"
    /\ HasRequiredColumns(clz_header)
    /\ comics' = load_clz_csv(clz_header, clz_rows)
    /\ images_by_key' = ImagesByKey(image_names)
    /\ groups' = GroupRecords(comics')
    /\ idx' = 1
    /\ ebay_rows' = << >>
    /\ failed_rows' = << >>
    /\ used_urls' = {}
    /\ pc' = "groups"
    /\ UNCHANGED <<inputs, callVars, allocVars, ebay_ready_csv, failed_csv>>

\* Line 71 for a catalog without a required column: load_clz_csv raises and
\* the run ends.
EbayLoadError ==
    /\ pc = "start"
    /\ ~HasRequiredColumns(clz_header)
    /\ pc' = "error"
    /\ UNCHANGED <<inputs, callVars, comics, idx, allocVars, ebayVars>>

GroupSelection(g) ==
    _select_images_for_group(ImagesFor(images_by_key, g.key), Len(g.members))

\* One pass of the loop of line 113 with a selection (lines 117-124).
GroupMatch ==
    /\ pc = "groups"
    /\ idx <= Len(groups)
    /\ LET g == groups[idx]
           selected == GroupSelection(g)
           n == IF Len(g.members) < Len(selected.images)
                THEN Len(g.members) ELSE Len(selected.images)
       IN /\ selected.ok
          /\ used_urls' = used_urls \cup { selected.images[k].url : k \in 1..n }
          /\ ebay_rows' = ebay_rows \o
                 [k \in 1..n |-> MatchedCopy(comics[g.members[k]],
                                             selected.images[k], Len(g.members))]
          /\ comics' = ReceiversAfter(comics, g.members,
                 [k \in 1..n |-> MatchedCopy(comics[g.members[k]],
                                             selected.images[k], Len(g.members))])
    /\ idx' = idx + 1
    /\ UNCHANGED <<inputs, callVars, pc, allocVars, images_by_key, groups,
                   failed_rows, ebay_ready_csv, failed_csv>>

\* One pass without selection (lines 125-131).
GroupFail ==
    /\ pc = "groups"
    /\ idx <= Len(groups)
    /\ LET g == groups[idx]
           unused_str == UnusedUrls(ImagesFor(images_by_key, g.key), used_urls)
       IN /\ ~GroupSelection(g).ok
          /\ failed_rows' = failed_rows \o
                 [k \in 1..Len(g.members) |->
                     with_failure(comics[g.members[k]], S_NoSafeMatch, unused_str)]
          /\ comics' = ReceiversAfter(comics, g.members,
                 [k \in 1..Len(g.members) |->
                     with_failure(comics[g.members[k]], S_NoSafeMatch, unused_str)])
    /\ idx' = idx + 1
    /\ UNCHANGED <<inputs, callVars, pc, allocVars, images_by_key, groups,
                   ebay_rows, used_urls, ebay_ready_csv, failed_csv>>

\* Lines 133-139: write_ebay_csvs against a template that passes
\* _load_template_rows: both files are written.
WriteEbayCsvs ==
    /\ pc = "groups"
    /\ idx > Len(groups)
    /\ _load_template_rows(ebay_template).ok
    /\ ebay_ready_csv' =
           EbayReadyCsv(ebay_rows, _load_template_rows(ebay_template).info_row,
                        _load_template_rows(ebay_template).headers,
                        min_start_price)
    /\ failed_csv' =
           EbayFailedCsv(failed_rows, _load_template_rows(ebay_template).headers)
    /\ pc' = "done_ebay"
    /\ UNCHANGED <<inputs, callVars, comics, idx, allocVars, images_by_key, groups,
                   ebay_rows, failed_rows, used_urls>>

\* write_ebay_csvs against any other template: _load_template_rows raises
\* (line 193) before a file is opened.
WriteEbayCsvsError ==
    /\ pc = "groups"
    /\ idx > Len(groups)
    /\ ~_load_template_rows(ebay_template).ok
    /\ pc' = "error"
    /\ UNCHANGED <<inputs, callVars, comics, idx, allocVars, ebayVars>>

Next ==
    \/ AllocateStart
    \/ AllocateMatch
    \/ AllocateFail
    \/ AllocateReturn
    \/ WriteFailureCsv
    \/ EbayStart
    \/ GroupMatch
    \/ GroupFail
    \/ WriteEbayCsvs

Spec == Init /\ [][Next]_vars

(***************************************************************************)
(* Direct calls of single functions                                        *)
(***************************************************************************)
\* The most tokens (words) of a text handed to a function.
MaxTokens == 3

\* No workflow runs while a single function is called.
NoRun ==
    /\ clz_header = << >>
    /\ clz_rows = << >>
    /\ image_names = << >>
    /\ ebay_template = StandardTemplate
    /\ min_start_price = NoFloat
    /\ ebay_ready_csv = NoReadyFile
    /\ comics = << >>
    /\ images = << >>
    /\ idx = 0
    /\ matched = << >>
    /\ failed = << >>
    /\ ledger_image_to_comic = << >>
    /\ ledger_comic_to_images = << >>
    /\ images_by_key = << >>
    /\ groups = << >>
    /\ ebay_rows = << >>
    /\ failed_rows = << >>
    /\ used_urls = {}
    /\ failed_csv = NoFile
    /\ failure_csv = NoFile

runVars == <<inputs, comics, idx, allocVars, ebayVars>>

\* ts[1] ss[1] ts[2] ss[2] ... : tokens joined by one separator per gap.
RECURSIVE JoinWith(_, _)
JoinWith(ts, ss) ==
    IF ts = << >> THEN << >>
    ELSE IF Len(ts) = 1 THEN ts[1]
    ELSE ts[1] \o <<ss[1]>> \o JoinWith(Tail(ts), Tail(ss))

Separators == {"_", "-", " "}

\* Words of series names: mixed case, a year, punctuation, and the empty
\* word (two separators in a row, or one at an end of the text).
SeriesWords == { <<"A","b">>, <<"2","0","1","6">>, <<"c","!">>, E }

Recase(s, how) == IF how = "upper" THEN Upper(s) ELSE Lower(s)

\* Another separator for each separator.
OtherSeparator(c) ==
    CASE c = "_" -> "-"
      [] c = "-" -> " "
      [] c = " " -> "_"

\* A text and a respelling of it: the same words, every gap filled with
\* another separator, the letters put in one case.
NormalizeArgs ==
    UNION { UNION { { [text |-> JoinWith(ts, ss),
                       respelled |->
                           Recase(JoinWith(ts, [i \in DOMAIN ss |-> OtherSeparator(ss[i])]),
                                  how)] :
                         how \in {"upper", "lower"} } :
                    ss \in [1..(Len(ts) - 1) -> Separators] } :
            ts \in UNION { [1..n -> SeriesWords] : n \in 1..MaxTokens } }

\* Tokens of image names: a series word, a volume marker, a year, issue
\* tokens with and without a letter, a token that is none of these, and the
\* empty token (two underscores in a row).
ImageTokens == { <<"a","b">>, <<"V","2">>, <<"2","0","1","6">>,
                 <<"1","2","a">>, <<"7">>, <<"x","9">>, E }

S_Png == <<".","p","n","g">>

\* An image name: its tokens joined by "_" and an extension.
FilenameArgs ==
    { [tokens |-> ts, name |-> Join(<<"_">>, ts) \o S_Png] :
        ts \in UNION { [1..n -> ImageTokens] : n \in 1..MaxTokens } }

\* The longest catalog handed to load_clz_csv alone.
MaxRows == 2

\* Catalog headers of ten columns: Value in column I (0-based 8), Value in
\* columns I and J, Value in column J only; and the two required columns alone.
HeaderValueAtI ==
    <<S_Series, S_IssueNr, S_Variant, S_Title, S_Publisher, S_Characters,
      S_CoverArtist, S_Grade, S_Value, S_Era>>
HeaderValueTwice == [HeaderValueAtI EXCEPT ![10] = S_Value]
HeaderValueAtJ == [HeaderValueAtI EXCEPT ![9] = S_Era, ![10] = S_Value]
HeaderPool == { HeaderValueAtI, HeaderValueTwice, HeaderValueAtJ, CatalogHeader }

\* Data rows of ten cells (issue with a letter or unparseable, Variant cell,
\* cells of columns I and J), a row of blanks and a row of two cells.
CatalogRows ==
    { <<<<"X">>, issue, variant, E, E, E, E, E, cell_i, cell_j>> :
        issue \in { <<"#","5","A">>, E },
        variant \in { E, <<"b">> },
        cell_i \in { E, <<" ","4"," ">> },
        cell_j \in { E, <<"7">> } }
    \cup { << E, <<" ">> >>, << <<"X">>, <<"5","c">> >> }

LoadArgs ==
    { [header |-> h, rows |-> rs] : h \in HeaderPool, rs \in SeqsUpTo(CatalogRows, MaxRows) }

\* Value cells: blank, not a number, below / at / above the minimums, with
\* currency symbol, comma and padding, negative, and the NaN and infinity
\* texts that float() accepts.
ValueCells ==
    { E, <<"a","b","c">>, <<"2",".","5","0">>, <<"3">>, <<"2",".","9","9","9">>,
      <<"3",".","0","0","4">>, <<"$","5">>, <<" ","4"," ">>, <<"1",",","5">>,
      <<"-","1">>, <<"n","a","n">>, <<"i","n","f">> }

\* Minimum prices: none, 3.00 (the default of the GUI) and 0.50.
MinimumPrices == { NoFloat, Number(FALSE, 3000), Number(FALSE, 500) }

PriceArgs == { [raw |-> v, min |-> m] : v \in ValueCells, m \in MinimumPrices }

(***************************************************************************)
(* File names of the scraper (tools/clz_scraper/utils.py)                  *)
(***************************************************************************)
IsAlnum(c) == IsLetter(c) \/ IsDigit(c)

\* text.lstrip("#")
RECURSIVE LStripHash(_)
LStripHash(s) == IF s # << >> /\ Head(s) = "#" THEN LStripHash(Tail(s)) ELSE s

\* re.sub(r"[^A-Za-z0-9]+", "_", text): every run of other characters
\* becomes one "_" (after which re.sub(r"_+", "_", text) finds no longer run).
RECURSIVE NonAlnumRunsToUnderscore(_)
NonAlnumRunsToUnderscore(s) ==
    IF s = << >> THEN << >>
    ELSE IF IsAlnum(Head(s)) THEN <<Head(s)>> \o NonAlnumRunsToUnderscore(Tail(s))
    ELSE IF Len(s) > 1 /\ ~IsAlnum(s[2]) THEN NonAlnumRunsToUnderscore(Tail(s))
    ELSE <<"_">> \o NonAlnumRunsToUnderscore(Tail(s))

S_Unknown == <<"U","n","k","n","o","w","n">>
S_NoIssueName == <<"N","o","I","s","s","u","e">>

sanitize_text_for_filename(text) ==
    LET cleaned == StripUnderscore(NonAlnumRunsToUnderscore(LStripHash(Strip(text))))
    IN IF cleaned = << >> THEN S_Unknown ELSE cleaned

\* A match of Vol\.?\s*([0-9]+), case ignored, starting exactly at i.
VolMatchAt(s, i) ==
    LET afterVol == i + 3
        afterDot == IF afterVol <= Len(s) /\ s[afterVol] = "."
                    THEN afterVol + 1 ELSE afterVol
        dstart == SpaceRunEnd(s, afterDot)
        dend == DigitRunEnd(s, dstart)
    IN IF /\ i + 2 <= Len(s)
          /\ Lower(SubSeq(s, i, i + 2)) = <<"v", "o", "l">>
          /\ dend > dstart
       THEN [ok |-> TRUE, dstart |-> dstart, end |-> dend]
       ELSE [ok |-> FALSE, dstart |-> 0, end |-> 0]

\* A match of \b(19[0-9]{2}|20[0-9]{2})\b starting exactly at i.
YearMatchAt(s, i) ==
    /\ i + 3 <= Len(s)
    /\ SubSeq(s, i, i + 1) \in { <<"1","9">>, <<"2","0">> }
    /\ IsDigit(s[i + 2]) /\ IsDigit(s[i + 3])
    /\ WordBoundary(s, i)
    /\ WordBoundary(s, i + 4)

\* parse_series: (base, mid), mid the empty text for None.
parse_series(series) ==
    LET vols == { i \in 1..Len(series) : VolMatchAt(series, i).ok }
        years == { i \in 1..Len(series) : YearMatchAt(series, i) }
        vol_start == CHOOSE i \in vols : \A j \in vols : i <= j
        year_start == CHOOSE i \in years : \A j \in years : i <= j
    IN IF vols # {}
       THEN [base |-> sanitize_text_for_filename(SubSeq(series, 1, vol_start - 1)),
             mid |-> <<"V">> \o SubSeq(series, VolMatchAt(series, vol_start).dstart,
                                       VolMatchAt(series, vol_start).end - 1)]
       ELSE IF years # {}
       THEN [base |-> sanitize_text_for_filename(SubSeq(series, 1, year_start - 1)),
             mid |-> SubSeq(series, year_start, year_start + 3)]
       ELSE [base |-> sanitize_text_for_filename(series), mid |-> << >>]

clean_issue(issue) == sanitize_text_for_filename(issue)

\* get_extension_from_url for a URL that is a path only: what follows the
\* last "." in lower case when it has 1 to 5 characters, "jpg" otherwise.
get_extension_from_url(url) ==
    LET dots == { i \in 1..Len(url) : url[i] = "." }
        last == CHOOSE i \in dots : \A j \in dots : j <= i
    IN IF dots # {} /\ Len(url) - last \in 1..5
       THEN Lower(From(url, last + 1))
       ELSE <<"j","p","g">>

build_filename(series, issue, image_url) ==
    LET parsed == parse_series(IF series = << >> THEN S_Unknown ELSE series)
        issue_clean == clean_issue(IF issue = << >> THEN S_NoIssueName ELSE issue)
        parts == <<parsed.base, parsed.mid, issue_clean>>
    IN Join(<<"_">>, SelectSeq(parts, LAMBDA part : part # << >>))
       \o <<".">> \o get_extension_from_url(image_url)

\* Series texts (plain, with punctuation, with a volume phrase, with a year
\* in parentheses or bare, with both), issue texts and image URLs.
BuildFilenameArgs ==
    { [series |-> series, issue |-> issue, url |-> url] :
        series \in { <<"X">>, <<"X","-","M","e","n">>,
                     <<"X",","," ","V","o","l","."," ","2">>,
                     <<"X"," ","v","o","l"," ","2">>,
                     <<"X"," ","(","2","0","1","6",")">>,
                     <<"X"," ","2","0","1","6">>,
                     <<"X",","," ","V","o","l","."," ","2"," ","(","2","0","1","1",")">>,
                     <<"X"," ","2">> },
        issue \in { <<"5">>, <<"#","5">>, <<"1","2","A">>, <<"#","5","a">>,
                    <<"5"," ","A">>, <<"x">>, << >> },
        url \in { <<"/","a",".","J","P","G">>, <<"/","a">> } }

\* Issue texts: nothing, "#", "# " or a letter; then no digits, 5 or 012; then
\* nothing or a space; then no letter, one or two.
IssueArgs ==
    { [token |-> lead \o digits \o gap \o letters] :
        lead \in { E, <<"#">>, <<"#"," ">>, <<"x">> },
        digits \in { E, <<"5">>, <<"0","1","2">> },
        gap \in { E, <<" ">> },
        letters \in { E, <<"a">>, <<"A","b">> } }

\* Matched records of issue 5 of series M for _build_title: no publisher or
\* one of 63 to 73 characters (a run of P, a space and "Co"), with and
\* without a title suffix, so that the 80th character of the title falls
\* inside the run, on its last P, on the space and inside "Co".
TitleArgs ==
    { [row |-> with_image(
                   load_clz_csv(HeaderValueAtI,
                       << <<<<"M">>, <<"5">>, E, E, p, E, E, E, E, E>> >>)[1],
                   <<"u">>, suffix)] :
        p \in { E } \cup { [i \in 1..n |-> "P"] \o <<" ","C","o">> : n \in 60..70 },
        suffix \in { E, <<"C","v","r"," ","A">> } }

InitFunctions ==
    /\ NoRun
    /\ pc = "call"
    /\ result = << >>
    /\ \/ op = "normalize_series" /\ args \in NormalizeArgs
       \/ op = "parse_image_filename" /\ args \in FilenameArgs
       \/ op = "load_clz_csv" /\ args \in LoadArgs
       \/ op = "_compute_start_price" /\ args \in PriceArgs
       \/ op = "parse_issue" /\ args \in IssueArgs
       \/ op = "_build_title" /\ args \in TitleArgs
       \/ op = "build_filename" /\ args \in BuildFilenameArgs

\* normalize_series applied to the text, to its own result and to the
\* respelled text.
CallNormalizeSeries ==
    /\ pc = "call"
    /\ op = "normalize_series"
    /\ result' = [once |-> normalize_series(args.text),
                  twice |-> normalize_series(normalize_series(args.text)),
                  other |-> normalize_series(args.respelled)]
    /\ pc' = "returned"
    /\ UNCHANGED <<runVars, op, args>>

CallParseImageFilename ==
    /\ pc = "call"
    /\ op = "parse_image_filename"
    /\ result' = parse_image_filename(args.name)
    /\ pc' = "returned"
    /\ UNCHANGED <<runVars, op, args>>

\* load_clz_csv over a header that has the required columns.
CallLoadClzCsv ==
    /\ pc = "call"
    /\ op = "load_clz_csv"
    /\ HasRequiredColumns(args.header)
    /\ result' = load_clz_csv(args.header, args.rows)
    /\ pc' = "returned"
    /\ UNCHANGED <<runVars, op, args>>

CallComputeStartPrice ==
    /\ pc = "call"
    /\ op = "_compute_start_price"
    /\ result' = [price |-> _compute_start_price(args.raw, args.min),
                  parsed |-> _parse_money_to_float(args.raw)]
    /\ pc' = "returned"
    /\ UNCHANGED <<runVars, op, args>>

\* The two issue parsers applied to one text.
CallParseIssue ==
    /\ pc = "call"
    /\ op = "parse_issue"
    /\ result' = [token |-> parse_issue_token(args.token),
                  catalog |-> _parse_issue(args.token)]
    /\ pc' = "returned"
    /\ UNCHANGED <<runVars, op, args>>

\* _build_title applied to a matched record.
CallBuildTitle ==
    /\ pc = "call"
    /\ op = "_build_title"
    /\ result' = _build_title(args.row)
    /\ pc' = "returned"
    /\ UNCHANGED <<runVars, op, args>>

\* The scraper's file name for a series and an issue, the key
\* parse_image_filename reads from it, and the records load_clz_csv builds
\* from a catalog row with that series and issue.
CallBuildFilename ==
    /\ pc = "call"
    /\ op = "build_filename"
    /\ result' =
          [filename |-> build_filename(args.series, args.issue, args.url),
           image |-> parse_image_filename(
                         build_filename(args.series, args.issue, args.url)),
           catalog |-> load_clz_csv(CatalogHeader, << <<args.series, args.issue>> >>)]
    /\ pc' = "returned"
    /\ UNCHANGED <<runVars, op, args>>

NextFunctions ==
    \/ CallBuildFilename
    \/ CallBuildTitle
    \/ CallParseIssue
    \/ CallComputeStartPrice
    \/ CallNormalizeSeries
    \/ CallParseImageFilename
    \/ CallLoadClzCsv

SpecFunctions == InitFunctions /\ [][NextFunctions]_vars

Returned(name) == op = name /\ pc = "returned"

(***************************************************************************)
(* Sequences of allocate_images runs over one asset list                   *)
(***************************************************************************)
\* The longest catalog and the longest list of image names of these runs.
MaxAllocComics == 2
MaxAllocImages == 2

InitAllocate ==
    /\ clz_header = CatalogHeader
    /\ clz_rows \in SeqsUpTo(RowPool, MaxAllocComics)
    /\ image_names \in DistinctSeqsUpTo(ImagePool, MaxAllocImages)
    /\ ebay_template = StandardTemplate
    /\ min_start_price = DefaultMinimumPrice
    /\ ebay_ready_csv = NoReadyFile
    /\ pc = "start"
    /\ comics = << >>
    /\ images = << >>
    /\ idx = 0
    /\ matched = << >>
    /\ failed = << >>
    /\ ledger_image_to_comic = << >>
    /\ ledger_comic_to_images = << >>
    /\ images_by_key = << >>
    /\ groups = << >>
    /\ ebay_rows = << >>
    /\ failed_rows = << >>
    /\ used_urls = {}
    /\ failed_csv = NoFile
    /\ failure_csv = NoFile
    /\ op = "workflow"
    /\ args = << >>
    /\ result = << >>

\* allocate_images is called again with the record objects and the asset
\* objects of the run before: the lists and ledgers of lines 266-269 are new,
\* the objects keep what the run before stored in them.
AllocateAgain ==
    /\ pc = "allocated"
    /\ idx' = 1
    /\ matched' = << >>
    /\ failed' = << >>
    /\ ledger_image_to_comic' = << >>
    /\ ledger_comic_to_images' = << >>
    /\ pc' = "allocate"
    /\ UNCHANGED <<inputs, callVars, comics, images, ebayVars, failure_csv>>

\* allocate_images is called again with the asset objects of the run before
\* and records newly loaded from the catalog.
AllocateAgainReloaded ==
    /\ pc = "allocated"
    /\ comics' = load_clz_csv(clz_header, clz_rows)
    /\ idx' = 1
    /\ matched' = << >>
    /\ failed' = << >>
    /\ ledger_image_to_comic' = << >>
    /\ ledger_comic_to_images' = << >>
    /\ pc' = "allocate"
    /\ UNCHANGED <<inputs, callVars, images, ebayVars, failure_csv>>

NextAllocate ==
    \/ AllocateStart
    \/ AllocateMatch
    \/ AllocateFail
    \/ AllocateReturn
    \/ AllocateAgain
    \/ AllocateAgainReloaded

SpecAllocate == InitAllocate /\ [][NextAllocate]_vars

(***************************************************************************)
(* Runs of run_ebay_csv_workflow over catalogs with all columns, faulty    *)
(* templates and several minimum prices                                    *)
(***************************************************************************)
\* The longest catalog and the longest list of hosted URLs of these runs.
MaxEbayComics == 2
MaxEbayImages == 2

\* Catalog headers without Issue Nr and without Series.
HeaderWithoutIssueNr == [HeaderValueAtI EXCEPT ![2] = S_Era]
HeaderWithoutSeries == [HeaderValueAtI EXCEPT ![1] = S_Era]
EbayHeaders == { HeaderValueAtI, HeaderWithoutIssueNr, HeaderWithoutSeries }

S_BatmanVol2 == <<"B","a","t","m","a","n",","," ","V","o","l","."," ","2">>
\* A publisher of 70 characters with a space at its 68th: the title of issue 5
\* of series M has 82 characters and its 80th is that space.
S_LongPublisher == [i \in 1..67 |-> "P"] \o <<" ","C","o">>

\* Rows under HeaderValueAtI: the row of the end-to-end scenario; a row with
\* the long publisher, a grade and a value; a row whose Variant cell holds
\* one control character.
EbayRowPool ==
    { <<S_BatmanVol2, <<"1","2","A">>, E, E, E, E, E, E, E, E>>,
      <<<<"M">>, <<"5">>, E, E, S_LongPublisher, E, E, <<"N","M">>,
        <<"2",".","5","0">>, E>>,
      <<<<"X">>, <<"5">>, <<"U+007F">>, E, E, E, E, E, <<"7">>, E>> }

\* Hosted images: the one of the scenario, a B cover of the same issue and a
\* cover of series M.
EbayImagePool ==
    { <<"B","a","t","m","a","n","_","V","2","_","1","2","A",".","w","e","b","p">>,
      <<"B","a","t","m","a","n","_","V","2","_","1","2","B",".","w","e","b","p">>,
      <<"M","_","5",".","p","n","g">> }

\* A template whose two rows have n columns and the four labels in place.
TemplateOfWidth(n) ==
    [exists |-> TRUE, rows |-> <<InfoRow(n), SubSeq(TemplateHeaders, 1, n)>>]

\* The standard template with another label at 0-based position idx.
TemplateMislabelled(position) ==
    [exists |-> TRUE,
     rows |-> <<InfoRow(75), [TemplateHeaders EXCEPT ![position + 1] = <<"X">>]>>]

\* Templates: the standard one and the narrowest that passes; a missing file,
\* a file of one row, an info row one cell short, a wrong label at each
\* checked position, and a header that ends before position 52.
TemplatePool ==
    { StandardTemplate, TemplateOfWidth(66),
      [exists |-> FALSE, rows |-> << >>],
      [exists |-> TRUE, rows |-> <<InfoRow(75)>>],
      [exists |-> TRUE, rows |-> <<InfoRow(74), TemplateHeaders>>],
      TemplateOfWidth(50) }
    \cup { TemplateMislabelled(position) :
             position \in { TITLE_COLUMN_INDEX, PICURL_COLUMN_INDEX,
                       START_PRICE_INDEX, DISPATCH_TIME_MAX_INDEX } }

InitEbay ==
    /\ clz_header \in EbayHeaders
    /\ clz_rows \in SeqsUpTo(EbayRowPool, MaxEbayComics)
    /\ image_names \in DistinctSeqsUpTo(EbayImagePool, MaxEbayImages)
    /\ ebay_template \in TemplatePool
    /\ min_start_price \in {NoFloat, DefaultMinimumPrice}
    /\ ebay_ready_csv = NoReadyFile
    /\ pc = "start"
    /\ comics = << >>
    /\ images = << >>
    /\ idx = 0
    /\ matched = << >>
    /\ failed = << >>
    /\ ledger_image_to_comic = << >>
    /\ ledger_comic_to_images = << >>
    /\ images_by_key = << >>
    /\ groups = << >>
    /\ ebay_rows = << >>
    /\ failed_rows = << >>
    /\ used_urls = {}
    /\ failed_csv = NoFile
    /\ failure_csv = NoFile
    /\ op = "workflow"
    /\ args = << >>
    /\ result = << >>

NextEbay ==
    \/ EbayStart
    \/ EbayLoadError
    \/ GroupMatch
    \/ GroupFail
    \/ WriteEbayCsvs
    \/ WriteEbayCsvsError

SpecEbay == InitEbay /\ [][NextEbay]_vars

(***************************************************************************)
(* Properties                                                              *)
(***************************************************************************)
AllocateOver == pc \in {"allocated", "done_allocate"}
EbayOver == pc = "done_ebay"

AssetIds == { images[k].id : k \in 1..Len(images) }

\* The positions of the records that hold asset a.
HoldersOf(a) ==
    { i \in 1..Len(comics) : a \in Range(comics[i].allocated_image_ids) }

\* C1: allocate_images never gives one asset to two records: every asset id
\* is in the allocated_image_ids of at most one record (and at most once in
\* it), and ledger_image_to_comic maps an assigned asset to the one record
\* that holds it.
C1_AssetHasOneRecord ==
    \A a \in AssetIds :
        /\ Cardinality(HoldersOf(a)) <= 1
        /\ \A i \in HoldersOf(a) :
               /\ Len(SelectSeq(comics[i].allocated_image_ids, LAMBDA x : x = a)) = 1
               /\ a \in DOMAIN ledger_image_to_comic
               /\ ledger_image_to_comic[a] = comics[i].id
        /\ a \in DOMAIN ledger_image_to_comic => HoldersOf(a) # {}

\* Two records of one key were matched, each with an asset of its own.
C1_Witness ==
    /\ AllocateOver
    /\ \E i, j \in 1..Len(comics) :
           /\ i < j
           /\ KeyOf(comics[i]) = KeyOf(comics[j])
           /\ comics[i].allocated_image_ids # << >>
           /\ comics[j].allocated_image_ids # << >>

\* The matched rows of the records whose issue number parsed.
PendingMatched == SelectSeq(ebay_rows, LAMBDA r : r.failure_reason # S_UNPARSEABLE_ISSUE)

\* C2: in the group allocation no hosted URL is given to two records: no two
\* matched rows carry the same image_url. (Stated over the records whose
\* issue parsed, so that a violation does not rest on C4.)
C2_UrlHasOneRecord ==
    \A i, j \in 1..Len(PendingMatched) :
        PendingMatched[i].image_url = PendingMatched[j].image_url => i = j

Count(seq, x) == Len(SelectSeq(seq, LAMBDA y : y = x))
IdsOf(recs) == [k \in 1..Len(recs) |-> recs[k].id]

\* C3: every record ends in exactly one partition. After allocate_images and
\* after the group allocation there is one record per non-blank catalog row,
\* each record is exactly once in matched or failed (not both, not neither),
\* so matched + failed = total, a matched record is MATCHED, and a failed
\* record is FAILED with a non-empty reason.
C3_OneTerminalPartition ==
    /\ AllocateOver =>
           /\ Len(comics) = Len(SelectSeq(clz_rows, LAMBDA r : ~IsBlankRow(r)))
           /\ Len(matched) + Len(failed) = Len(comics)
           /\ \A i \in 1..Len(comics) : Count(matched, i) + Count(failed, i) = 1
           /\ \A k \in 1..Len(matched) : comics[matched[k]].status = "MATCHED"
           /\ \A k \in 1..Len(failed) :
                  /\ comics[failed[k]].status = "FAILED"
                  /\ comics[failed[k]].failure_reason # E
    /\ EbayOver =>
           /\ Len(comics) = Len(SelectSeq(clz_rows, LAMBDA r : ~IsBlankRow(r)))
           /\ Len(ebay_rows) + Len(failed_rows) = Len(comics)
           /\ \A i \in 1..Len(comics) :
                  Count(IdsOf(ebay_rows), comics[i].id)
                  + Count(IdsOf(failed_rows), comics[i].id) = 1
           /\ \A k \in 1..Len(ebay_rows) : ebay_rows[k].status = "MATCHED"
           /\ \A k \in 1..Len(failed_rows) :
                  /\ failed_rows[k].status = "FAILED"
                  /\ failed_rows[k].failure_reason # E

\* A group allocation over several groups ended with records in both
\* partitions.
C3_Witness ==
    /\ EbayOver
    /\ Len(groups) >= 2
    /\ ebay_rows # << >>
    /\ failed_rows # << >>

\* The records as the parser left them.
Parsed == load_clz_csv(clz_header, clz_rows)

\* C4: a record the parser marked FAILED / UNPARSEABLE_ISSUE is passed through
\* untouched: after allocate_images and after the group allocation it is in
\* the failed partition, its reason is still UNPARSEABLE_ISSUE, it has no
\* image and it consumed no asset.
C4_PreFailedUntouched ==
    \A i \in 1..Len(comics) :
        Parsed[i].status = "FAILED" =>
            /\ AllocateOver =>
                   /\ Count(failed, i) = 1
                   /\ Count(matched, i) = 0
                   /\ comics[i].failure_reason = S_UNPARSEABLE_ISSUE
                   /\ comics[i].allocated_image_ids = << >>
                   /\ comics[i].id \notin DOMAIN ledger_comic_to_images
            /\ EbayOver =>
                   /\ Count(IdsOf(ebay_rows), comics[i].id) = 0
                   /\ \E k \in 1..Len(failed_rows) :
                          /\ failed_rows[k].id = comics[i].id
                          /\ failed_rows[k].failure_reason = S_UNPARSEABLE_ISSUE
                          /\ failed_rows[k].image_url = E

\* C6: the group allocation groups by match key: two records with the same
\* (series_norm, volume, issue_number) are in the same group, wherever they
\* stand in the catalog. (Stated over the records whose issue parsed.)
C6_SameKeySameGroup ==
    pc \in {"groups", "done_ebay"} =>
        \A i, j \in 1..Len(comics) :
            /\ comics[i].status = "PENDING"
            /\ comics[j].status = "PENDING"
            /\ KeyOf(comics[i]) = KeyOf(comics[j])
            => \E g \in 1..Len(groups) : {i, j} \subseteq Range(groups[g].members)

\* The group allocation has dealt with group g.
GroupProcessed(g) == pc = "done_ebay" \/ (pc = "groups" /\ g < idx)

\* The matched / failed copies of the record at position i of comics.
MatchedCopies(i) == SelectSeq(ebay_rows, LAMBDA r : r.id = comics[i].id)
FailedCopies(i) == SelectSeq(failed_rows, LAMBDA r : r.id = comics[i].id)
IsMatched(i) == MatchedCopies(i) # << >>
IsFailed(i) == FailedCopies(i) # << >>

\* The image pool of group g, and the variant tag of a URL read from the URL.
PoolOf(g) == ImagesFor(images_by_key, groups[g].key)
VariantOfUrl(url) == _parse_hosted_url(url).issue_suffix

\* The pool is in variant order.
InVariantOrder(pool) ==
    \A k, l \in 1..Len(pool) : k < l => ~StrLess(pool[l].variant, pool[k].variant)

\* The first n images of the pool exist, are all tagged, with distinct tags.
SafeCandidates(pool, n) ==
    /\ Len(pool) >= n
    /\ \A k \in 1..n : pool[k].variant # E
    /\ \A k, l \in 1..n : k < l => pool[k].variant # pool[l].variant

\* C7: a group of N > 1 records is matched only if its key has at least N
\* images and the first N in variant order are all tagged, with pairwise
\* distinct tags; otherwise every record of the group is failed; and the
\* images of a matched group of N > 1 records have pairwise distinct,
\* non-empty tags.
C7_MultiGroupNeedsDistinctTags ==
    \A g \in 1..Len(groups) :
        LET members == groups[g].members
            n == Len(members)
            pool == PoolOf(g)
            anyMatched == \E k \in 1..n : IsMatched(members[k])
        IN (GroupProcessed(g) /\ n > 1) =>
               /\ InVariantOrder(pool)
               /\ anyMatched => SafeCandidates(pool, n)
               /\ ~SafeCandidates(pool, n) =>
                      \A k \in 1..n : IsFailed(members[k]) /\ ~IsMatched(members[k])
               /\ anyMatched =>
                      /\ \A k \in 1..n :
                             /\ Len(MatchedCopies(members[k])) = 1
                             /\ VariantOfUrl(MatchedCopies(members[k])[1].image_url) # E
                      /\ \A k, l \in 1..n :
                             k < l =>
                                 VariantOfUrl(MatchedCopies(members[k])[1].image_url)
                                 # VariantOfUrl(MatchedCopies(members[l])[1].image_url)

\* A group of two records was matched.
C7_Witness ==
    \E g \in 1..Len(groups) :
        /\ GroupProcessed(g)
        /\ Len(groups[g].members) = 2
        /\ \A k \in 1..2 : IsMatched(groups[g].members[k])

\* The number of images of the pool tagged A.
CountA(pool) == Len(SelectSeq(pool, LAMBDA img : img.variant = S_A))

\* C8: a group of one record is matched if and only if the pool holds exactly
\* one image, or several of which exactly one is tagged A; it gets that one
\* image, respectively the A image; in every other case the record fails.
C8_SingleRecordGroup ==
    \A g \in 1..Len(groups) :
        LET m == groups[g].members[1]
            pool == PoolOf(g)
            one == Len(pool) = 1
            oneA == Len(pool) > 1 /\ CountA(pool) = 1
        IN (GroupProcessed(g) /\ Len(groups[g].members) = 1) =>
               /\ IsMatched(m) <=> (one \/ oneA)
               /\ IsFailed(m) <=> ~(one \/ oneA)
               /\ one => /\ Len(MatchedCopies(m)) = 1
                         /\ MatchedCopies(m)[1].image_url = pool[1].url
               /\ oneA => /\ Len(MatchedCopies(m)) = 1
                          /\ VariantOfUrl(MatchedCopies(m)[1].image_url) = S_A
                          /\ \E k \in 1..Len(pool) :
                                 /\ pool[k].variant = S_A
                                 /\ pool[k].url = MatchedCopies(m)[1].image_url

\* A single record got the one A image of a pool whose first image is not
\* the A image.
C8_Witness ==
    \E g \in 1..Len(groups) :
        /\ GroupProcessed(g)
        /\ Len(groups[g].members) = 1
        /\ Len(PoolOf(g)) > 1
        /\ CountA(PoolOf(g)) = 1
        /\ PoolOf(g)[1].variant # S_A
        /\ IsMatched(groups[g].members[1])

\* The URLs given to records that stand before position i in the catalog:
\* what had been assigned when the group starting at i was judged.
AssignedBefore(i) ==
    { ebay_rows[k].image_url :
          k \in { j \in 1..Len(ebay_rows) : ebay_rows[j].id < comics[i].id } }

\* C9: when a group is rejected, every record of it is failed with the same
\* reason, and the diagnostic field of each is the "|"-joined list of the
\* URLs of the key's images that have not been assigned to any record when
\* the group is rejected.
C9_RejectedGroupDiagnostics ==
    \A g \in 1..Len(groups) :
        LET members == groups[g].members
            pool == PoolOf(g)
            left == SelectSeq(pool, LAMBDA img : img.url \notin AssignedBefore(members[1]))
            listed == Join(<<"|">>, [k \in 1..Len(left) |-> left[k].url])
        IN (GroupProcessed(g) /\ \E k \in 1..Len(members) : IsFailed(members[k])) =>
               \A k \in 1..Len(members) :
                   /\ Len(FailedCopies(members[k])) = 1
                   /\ ~IsMatched(members[k])
                   /\ FailedCopies(members[k])[1].failure_reason = S_NoSafeMatch
                   /\ FailedCopies(members[k])[1].unused_image_urls = listed

\* Two records share a key whose two images are both tagged A: both are
\* failed and both URLs are listed.
C9_Witness ==
    \E g \in 1..Len(groups) :
        /\ GroupProcessed(g)
        /\ Len(groups[g].members) = 2
        /\ Len(PoolOf(g)) = 2
        /\ CountA(PoolOf(g)) = 2
        /\ \A k \in 1..2 :
               /\ IsFailed(groups[g].members[k])
               /\ FailedCopies(groups[g].members[k])[1].unused_image_urls
                      = PoolOf(g)[1].url \o <<"|">> \o PoolOf(g)[2].url

\* The failed file the claim describes: the catalog header plus FailureReason,
\* and per failed record its raw row plus its reason.
VerbatimFailedFile(recs) ==
    [header |-> clz_header \o <<FAILURE_REASON_COLUMN>>,
     rows |-> [k \in 1..Len(recs) |-> recs[k].clz_row \o <<recs[k].failure_reason>>]]

\* C10: the failed output has one row per failed record, the record's raw
\* catalog row followed by one failure-reason column, under the catalog
\* header plus FailureReason; for the failed file of the eBay CSV workflow and
\* for write_failure_csv.
C10_FailedOutputVerbatim ==
    /\ (pc = "done_ebay" /\ failed_rows # << >>) =>
           failed_csv = VerbatimFailedFile(failed_rows)
    /\ (pc = "done_allocate" /\ failed # << >>) =>
           failure_csv = VerbatimFailedFile(FailedRecords)

\* The words of a text: what its separators '_', '-', ' ' delimit.
WordsOf(text) == SplitNonEmpty(SeparatorsToSpaces(text), " ")

\* C16: normalize_series is idempotent, gives a text and its respelling
\* (other letter case, other separators among '_', '-', ' ') the same key,
\* and keeps every year token of the text as a word of the key.
C16_NormalizeSeries ==
    Returned("normalize_series") =>
        /\ result.twice = result.once
        /\ result.other = result.once
        /\ \A k \in 1..Len(WordsOf(args.text)) :
               IsYearToken(WordsOf(args.text)[k]) =>
                   WordsOf(args.text)[k] \in Range(WordsOf(result.once))

C16_Witness ==
    /\ Returned("normalize_series")
    /\ args.respelled # args.text
    /\ result.once # Lower(args.text)
    /\ \E k \in 1..Len(WordsOf(args.text)) : IsYearToken(WordsOf(args.text)[k])
    /\ \E k \in 1..Len(WordsOf(args.text)) : IsUpper(WordsOf(args.text)[k][1])

\* The image-key grammar, stated over the non-empty tokens of the stem.
MarkerLike(tok) ==
    /\ Len(tok) >= 2
    /\ tok[1] \in {"v", "V"}
    /\ \A i \in 2..Len(tok) : IsDigit(tok[i])

IssueLike(tok) ==
    \E d \in 1..Len(tok) :
        /\ \A i \in 1..d : IsDigit(tok[i])
        /\ \A i \in (d + 1)..Len(tok) : IsLetter(tok[i])

YearLike(tok) ==
    /\ Len(tok) = 4
    /\ \A i \in 1..4 : IsDigit(tok[i])
    /\ ToInt(tok) \in 1900..2099

NameTokens == SelectSeq(args.tokens, LAMBDA tok : tok # E)

\* Position of the first volume marker, 0 when there is none.
MarkerAt ==
    LET ms == { i \in 1..Len(NameTokens) : MarkerLike(NameTokens[i]) }
    IN IF ms = {} THEN 0 ELSE CHOOSE i \in ms : \A j \in ms : i <= j

\* The token right after the marker, or else the last token.
IssueAt ==
    IF MarkerAt # 0 /\ MarkerAt < Len(NameTokens) THEN MarkerAt + 1
    ELSE Len(NameTokens)

\* The tokens before the marker (before the issue token when there is no
\* marker) that are not years.
SeriesTokens ==
    SelectSeq(SubSeq(NameTokens, 1, (IF MarkerAt # 0 THEN MarkerAt ELSE IssueAt) - 1),
              LAMBDA tok : ~YearLike(tok))

DigitsOfIssue(tok) == SelectSeq(tok, IsDigit)

\* C17: parse_image_filename returns none exactly when the stem has fewer
\* than 2 non-empty tokens, the issue token (the one after the first volume
\* marker, else the last) is not digits followed by letters, or no series
\* token is left after dropping years; otherwise the volume is the marker's
\* number (1 without marker), the issue is the issue token's number and
\* letters, and the series is made of the remaining tokens.
C17_ImageKeyGrammar ==
    Returned("parse_image_filename") =>
        /\ ~result.ok <=> \/ Len(NameTokens) < 2
                          \/ ~IssueLike(NameTokens[IssueAt])
                          \/ SeriesTokens = << >>
        /\ result.ok =>
               /\ result.volume = IF MarkerAt # 0
                                  THEN ToInt(Tail(NameTokens[MarkerAt])) ELSE 1
               /\ result.issue_number = ToInt(DigitsOfIssue(NameTokens[IssueAt]))
               /\ Lower(result.issue_suffix) =
                      Lower(SelectSeq(NameTokens[IssueAt], IsLetter))
               /\ result.series_norm = normalize_series(Join(<<" ">>, SeriesTokens))

\* A name with a series word, a year and an issue token is parsed and the
\* year is not part of the series.
C17_Witness ==
    /\ Returned("parse_image_filename")
    /\ result.ok
    /\ \E i \in 1..(IssueAt - 1) : YearLike(NameTokens[i])
    /\ result.series_norm = <<"a","b">>

\* A row with a cell that holds something else than whitespace.
NonBlank(row) == \E i \in 1..Len(row) : \E j \in 1..Len(row[i]) : row[i][j] # " "

\* C18: load_clz_csv makes one record per non-blank data row and none for a
\* blank row: the records are the non-blank rows in input order, with ids
\* 1..n, each keeping its row verbatim in clz_row (failed rows too).
C18_OneRecordPerNonBlankRow ==
    Returned("load_clz_csv") =>
        LET kept == SelectSeq(args.rows, NonBlank)
        IN /\ Len(result) = Len(kept)
           /\ \A k \in 1..Len(result) :
                  /\ result[k].id = k
                  /\ result[k].clz_row = kept[k]

\* A blank row precedes a row whose issue does not parse: one record, id 1,
\* FAILED.
C18_Witness ==
    /\ Returned("load_clz_csv")
    /\ Len(args.rows) = 2
    /\ ~NonBlank(args.rows[1])
    /\ Len(result) = 1
    /\ result[1].status = "FAILED"
    /\ result[1].failure_reason = S_UNPARSEABLE_ISSUE

\* The cell of a row at a 1-based position, stripped; empty when the row is
\* shorter.
CellAt(row, i) == IF i <= Len(row) THEN Strip(row[i]) ELSE E

\* The positions of the header that carry a label.
ColumnsNamed(header, label) == { i \in 1..Len(header) : Strip(header[i]) = label }

\* C19: when the header's fixed position 8 (0-based) is labelled Value, the
\* record's value is the cell at that position of its row; otherwise it is
\* the cell of the column named Value (empty without such a column).
C19_ValueFromColumnI ==
    Returned("load_clz_csv") =>
        \A k \in 1..Len(result) :
            IF 9 \in ColumnsNamed(args.header, S_Value)
            THEN result[k].value = CellAt(result[k].clz_row, 9)
            ELSE \/ /\ ColumnsNamed(args.header, S_Value) = {}
                    /\ result[k].value = E
                 \/ \E i \in ColumnsNamed(args.header, S_Value) :
                        result[k].value = CellAt(result[k].clz_row, i)

\* C20: for a row whose issue token parses, the record's issue suffix is the
\* upper-cased Variant cell when there is a Variant column and the cell is
\* not empty, else the upper-cased letter of the issue token; the match key
\* is made of the Series and Issue Nr cells alone.
C20_VariantPrecedence ==
    Returned("load_clz_csv") =>
        \A k \in 1..Len(result) :
            LET row == result[k].clz_row
                vcols == ColumnsNamed(args.header, S_Variant)
                variant == IF vcols = {} THEN E
                           ELSE CellAt(row, CHOOSE i \in vcols : TRUE)
                issue == _parse_issue(CellAt(row, 2))
                sv == _parse_series_and_volume(CellAt(row, 1))
            IN result[k].status = "PENDING" =>
                   /\ issue.ok
                   /\ result[k].issue_suffix =
                          IF variant # E THEN Upper(variant) ELSE Upper(issue.suffix)
                   /\ KeyOf(result[k]) =
                          <<normalize_series(sv.series), sv.volume, issue.number>>

\* A row with issue 5A and Variant b gives suffix B, and a row without
\* Variant cell keeps the letter of its issue token.
C20_Witness ==
    /\ Returned("load_clz_csv")
    /\ Len(result) = 2
    /\ result[1].clz_row[2] = <<"#","5","A">>
    /\ CellAt(result[1].clz_row, 3) = <<"b">>
    /\ result[1].issue_suffix = <<"B">>
    /\ result[2].issue_suffix \in { <<"A">>, <<"C">> }
    /\ KeyOf(result[1]) = KeyOf(result[2])

\* A price text with two decimals: an optional minus sign, digits, a point,
\* two digits.
TwoDecimalText(p) ==
    LET digits == IF p # << >> /\ p[1] = "-" THEN Tail(p) ELSE p
    IN /\ Len(digits) >= 4
       /\ digits[Len(digits) - 2] = "."
       /\ \A i \in 1..Len(digits) : i # Len(digits) - 2 => IsDigit(digits[i])

\* The amount of a two-decimal text, in thousandths.
MillsOfText(p) ==
    LET neg == p[1] = "-"
        digits == IF neg THEN Tail(p) ELSE p
        cents == 100 * ToInt(SubSeq(digits, 1, Len(digits) - 3))
                 + ToInt(SubSeq(digits, Len(digits) - 1, Len(digits)))
    IN IF neg THEN 0 - 10 * cents ELSE 10 * cents

\* C13: with a minimum m, _compute_start_price returns m with two decimals
\* for a blank or unparseable value and for a value below m, and the value
\* with two decimals when it is at or above m, so the result is a two-decimal
\* price never below m; without minimum it returns the value with two
\* decimals, or blank when the value is unparseable.
C13_PriceFloor ==
    Returned("_compute_start_price") =>
        IF args.min.kind = "none"
        THEN IF result.parsed.kind = "none" THEN result.price = E
             ELSE /\ TwoDecimalText(result.price)
                  /\ result.price = FormatFloat(result.parsed)
        ELSE /\ TwoDecimalText(result.price)
             /\ MillsOfText(result.price) >= args.min.mills
             /\ result.price =
                    IF result.parsed.kind = "none" \/ FloatLess(result.parsed, args.min)
                    THEN FormatFloat(args.min)
                    ELSE FormatFloat(result.parsed)

(***************************************************************************)
(* The ready output of run_ebay_csv_workflow                               *)
(***************************************************************************)
\* The data rows of ebay_ready.csv (after the info row and the header row).
ReadyRows == SubSeq(ebay_ready_csv, 3, Len(ebay_ready_csv))

\* The run of the end-to-end scenario: one catalog row with Series
\* "Batman, Vol. 2" and Issue Nr "12A", the single image Batman_V2_12A.webp.
ScenarioRun ==
    /\ clz_header = HeaderValueAtI
    /\ clz_rows = << <<S_BatmanVol2, <<"1","2","A">>, E, E, E, E, E, E, E, E>> >>
    /\ image_names =
         << <<"B","a","t","m","a","n","_","V","2","_","1","2","A",".","w","e","b","p">> >>

S_batman == <<"b","a","t","m","a","n">>

\* C15: end to end, the scenario's row with its single image is written as
\* one MATCHED record with match key (batman, 2, 12), SKU batman_v2_0012A and
\* the title "Batman Vol. 2 #12 Cvr A" in the ready output.
C15_EndToEnd ==
    (ScenarioRun /\ pc = "done_ebay") =>
        /\ Len(ebay_rows) = 1
        /\ failed_rows = << >>
        /\ ebay_rows[1].status = "MATCHED"
        /\ KeyOf(ebay_rows[1]) = <<S_batman, 2, 12>>
        /\ Len(ReadyRows) = 1
        /\ ReadyRows[1][2] = S_batman \o <<"_","v","2","_","0","0","1","2","A">>
        /\ ReadyRows[1][TITLE_COLUMN_INDEX + 1] =
             <<"B","a","t","m","a","n"," ","V","o","l","."," ","2"," ","#","1","2",
               " ","C","v","r"," ","A">>

\* The label that _load_template_rows expects at a checked position.
CheckedLabel(position) ==
    CASE position = TITLE_COLUMN_INDEX -> S_TitleLabel
      [] position = PICURL_COLUMN_INDEX -> S_PicURL
      [] position = START_PRICE_INDEX -> S_StartPrice
      [] position = DISPATCH_TIME_MAX_INDEX -> S_DispatchTimeMax

CatalogLacksRequiredColumn ==
    S_Series \notin Range(clz_header) \/ S_IssueNr \notin Range(clz_header)

TemplateRowLengthsDiffer ==
    /\ ebay_template.exists
    /\ Len(ebay_template.rows) >= 2
    /\ Len(ebay_template.rows[1]) # Len(ebay_template.rows[2])

TemplateCarriesOtherLabel ==
    /\ ebay_template.exists
    /\ Len(ebay_template.rows) >= 2
    /\ \E position \in { TITLE_COLUMN_INDEX, PICURL_COLUMN_INDEX,
                         START_PRICE_INDEX, DISPATCH_TIME_MAX_INDEX } :
          /\ position + 1 <= Len(ebay_template.rows[2])
          /\ ebay_template.rows[2][position + 1] # CheckedLabel(position)

ConfigurationError ==
    \/ CatalogLacksRequiredColumn
    \/ TemplateRowLengthsDiffer
    \/ TemplateCarriesOtherLabel

\* C11: in a run whose catalog header lacks Series or Issue Nr, or whose
\* template has info and header rows of different lengths or another label at
\* one of the four checked positions, no step creates or changes
\* ebay_ready.csv or failed.csv, the run never finishes normally, and the
\* step that loads the faulty input ends the run in an error.
C11_ConfigurationErrorsAbort ==
    [][ConfigurationError =>
          /\ ebay_ready_csv' = ebay_ready_csv
          /\ failed_csv' = failed_csv
          /\ pc' \in {"groups", "error"}
          /\ (pc = "start" /\ CatalogLacksRequiredColumn) => pc' = "error"
          /\ (pc = "groups" /\ idx > Len(groups)) => pc' = "error"]_vars

\* A run over a catalog with records has ended in an error at a template with
\* a wrong label, and neither file exists.
C11_Witness ==
    /\ pc = "error"
    /\ ~CatalogLacksRequiredColumn
    /\ TemplateCarriesOtherLabel
    /\ ebay_rows # << >>
    /\ failed_rows # << >>
    /\ ebay_ready_csv = NoReadyFile
    /\ failed_csv = NoFile

\* The cell of a written row at a 0-based template position holds a text.
Holds(row, position, text) ==
    position + 1 <= Len(row) /\ row[position + 1] = text

\* C12 as stated: in every row of the ready output every position of
\* FIXED_BY_COLUMN_INDEX holds its fixed literal and position 65 is blank.
C12_FixedAtEveryListedPosition ==
    \A k \in 1..Len(ReadyRows) :
        /\ \A position \in DOMAIN FIXED_BY_COLUMN_INDEX :
              Holds(ReadyRows[k], position, FIXED_BY_COLUMN_INDEX[position])
        /\ Holds(ReadyRows[k], DISPATCH_TIME_MAX_INDEX, E)

\* C12, amended: in every row of the ready output, for every record and every
\* minimum price, every position of FIXED_BY_COLUMN_INDEX that lies inside
\* the template's column count holds its fixed literal, the row has no other
\* positions, and position 65 is blank.
C12_FixedOverlayWins ==
    \A k \in 1..Len(ReadyRows) :
        /\ Len(ReadyRows[k]) = Len(ebay_ready_csv[2])
        /\ \A position \in DOMAIN FIXED_BY_COLUMN_INDEX :
              position < Len(ebay_ready_csv[2]) =>
                  Holds(ReadyRows[k], position, FIXED_BY_COLUMN_INDEX[position])
        /\ Holds(ReadyRows[k], DISPATCH_TIME_MAX_INDEX, E)

\* Two rows were written under the template of 66 columns in a run with a
\* minimum price, one of them for a record whose value lies below it.
C12_Witness ==
    /\ pc = "done_ebay"
    /\ Len(ReadyRows) = 2
    /\ Len(ebay_ready_csv[2]) = 66
    /\ min_start_price = DefaultMinimumPrice
    /\ \E k \in 1..2 :
          /\ ebay_rows[k].value = <<"2",".","5","0">>
          /\ ReadyRows[k][START_PRICE_INDEX + 1] = <<"3",".","0","0">>

\* A title of at most 80 characters that does not end in whitespace.
WithinTitleLimit(title) ==
    /\ Len(title) <= MaxTitleLen
    /\ title # E => ~IsSpace(title[Len(title)])

\* The *Title cells of the written rows: failed.csv has two columns before
\* the template's.
ReadyTitle(k) == ReadyRows[k][TITLE_COLUMN_INDEX + 1]
FailedTitle(k) == failed_csv.rows[k][TITLE_COLUMN_INDEX + 3]

\* C14: for every record, the title written to the *Title column has at most
\* 80 characters and no trailing whitespace, and a title of 80 characters or
\* fewer is written as it was assembled.
C14_TitleWithinLimit ==
    /\ \A k \in 1..Len(ReadyRows) :
          /\ WithinTitleLimit(ReadyTitle(k))
          /\ Len(JoinedTitle(ebay_rows[k])) <= MaxTitleLen =>
                ReadyTitle(k) = JoinedTitle(ebay_rows[k])
    /\ \A k \in 1..Len(failed_csv.rows) : WithinTitleLimit(FailedTitle(k))

(***************************************************************************)
(* Sequences of allocate_images runs                                       *)
(***************************************************************************)
\* The ids of the assets whose used flag is set.
UsedIds == { images[k].id : k \in { j \in 1..Len(images) : images[j].used } }

\* C21: over any sequence of allocate_images runs on one asset list, no
\* asset goes from used back to unused, a used flag changes only inside
\* allocate_images, and the asset a record receives was unused until then.
C21_UsedFlagOneWay ==
    [][/\ pc # "start" =>
            /\ Len(images') = Len(images)
            /\ \A k \in 1..Len(images) : images[k].used => images'[k].used
       /\ (pc # "start" /\ images' # images) => (pc = "allocate" /\ pc' = "allocate")
       /\ (pc = "allocate" /\ ledger_image_to_comic' # ledger_image_to_comic) =>
            \E k \in 1..Len(images) :
                /\ DOMAIN ledger_image_to_comic' =
                       DOMAIN ledger_image_to_comic \cup {images[k].id}
                /\ ~images[k].used
                /\ images'[k].used]_vars

\* A later run has given a record an asset while an asset used up by an
\* earlier run is still marked used.
C21_Witness ==
    /\ pc = "allocate"
    /\ ledger_image_to_comic # << >>
    /\ UsedIds \ DOMAIN ledger_image_to_comic # {}

\* C22: after every allocate_images run each record's allocated_image_ids
\* holds at most one asset id, exactly one if the record is MATCHED and none
\* if it is FAILED, and ledger_comic_to_images lists at most one asset per
\* record id.
C22_AtMostOneImagePerRecord ==
    pc = "allocated" =>
        /\ \A i \in 1..Len(comics) :
              /\ Len(comics[i].allocated_image_ids) <= 1
              /\ comics[i].status = "MATCHED" =>
                    Len(comics[i].allocated_image_ids) = 1
              /\ comics[i].status = "FAILED" =>
                    comics[i].allocated_image_ids = << >>
        /\ \A id \in DOMAIN ledger_comic_to_images :
              Len(ledger_comic_to_images[id]) <= 1

(***************************************************************************)
(* Copies of records in run_ebay_csv_workflow                              *)
(***************************************************************************)
\* copy is original with new values in the fields named, and in no other.
MatchedCopyOf(copy, original) ==
    /\ copy.status = "MATCHED"
    /\ [copy EXCEPT !.status = original.status,
                    !.image_url = original.image_url,
                    !.title_suffix = original.title_suffix] = original

FailedCopyOf(copy, original) ==
    /\ copy.status = "FAILED"
    /\ [copy EXCEPT !.status = original.status,
                    !.failure_reason = original.failure_reason,
                    !.unused_image_urls = original.unused_image_urls] = original

FreeFor(i) ==
    { k \in 1..Len(images) : KeyOf(images[k]) = KeyOf(comics[i]) /\ ~images[k].used }

\* Asset j comes before asset k in the order (issue suffix, lower-cased
\* filename).
SortsBefore(j, k) ==
    TupleLess(<<images[j].issue_suffix, Lower(images[j].filename)>>,
              <<images[k].issue_suffix, Lower(images[k].filename)>>)

\* C24: every step of the loop of allocate_images handles the next record in
\* input order; if its key has unused assets the record becomes MATCHED with
\* the one that is first by (issue suffix, lower-cased filename), and that
\* asset alone becomes used; otherwise the record becomes FAILED with reason
\* NO_MATCHING_IMAGE and no asset changes.  The record's own suffix is not
\* consulted.
C24_FirstUnusedOfBucket ==
    [][(pc = "allocate" /\ idx <= Len(comics)) =>
          /\ idx' = idx + 1
          /\ \A i \in 1..Len(comics) : i # idx => comics'[i] = comics[i]
          /\ IF FreeFor(idx) = {}
             THEN /\ comics'[idx].status = "FAILED"
                  /\ comics'[idx].failure_reason = S_NO_MATCHING_IMAGE
                  /\ failed' = Append(failed, idx)
                  /\ matched' = matched
                  /\ images' = images
             ELSE \E k \in FreeFor(idx) :
                  /\ \A j \in FreeFor(idx) : ~SortsBefore(j, k)
                  /\ images' = [images EXCEPT ![k].used = TRUE]
                  /\ comics'[idx].status = "MATCHED"
                  /\ comics'[idx].allocated_image_ids =
                         Append(comics[idx].allocated_image_ids, images[k].id)
                  /\ matched' = Append(matched, idx)
                  /\ failed' = failed]_vars

\* A record with cover letter A holds the untagged asset of its key while an
\* asset tagged A of that key, named earlier in the input, is unused.
C24_Witness ==
    /\ pc = "allocate"
    /\ \E i \in 1..Len(comics), k, j \in 1..Len(images) :
          /\ comics[i].status = "MATCHED"
          /\ comics[i].issue_suffix = <<"A">>
          /\ comics[i].allocated_image_ids = <<images[k].id>>
          /\ images[k].issue_suffix = E
          /\ j < k
          /\ j \in FreeFor(i)
          /\ images[j].issue_suffix = <<"A">>

(***************************************************************************)
(* The two issue parsers                                                   *)
(***************************************************************************)
\* The text without one leading "#".
AfterHash(t) == IF t # << >> /\ t[1] = "#" THEN Tail(t) ELSE t

\* The text is an optional "#", then digits, then letters only.
InIssueGrammar(t) ==
    /\ DigitRunEnd(AfterHash(t), 1) > 1
    /\ LetterRunEnd(AfterHash(t), DigitRunEnd(AfterHash(t), 1)) = Len(AfterHash(t)) + 1

\* What the grammar gives for such a text: the number and the upper-cased
\* letters.
IssueOfGrammar(t) ==
    [ok |-> TRUE,
     number |-> ToInt(SubSeq(AfterHash(t), 1, DigitRunEnd(AfterHash(t), 1) - 1)),
     suffix |-> Upper(From(AfterHash(t), DigitRunEnd(AfterHash(t), 1)))]

\* C25: parse_issue_token and _parse_issue both return none exactly for a
\* text without digits, both return the number and the upper-cased letters
\* of a text made of an optional "#", digits and trailing letters, and they
\* return the same for the same text.
C25_IssueParsersAgree ==
    Returned("parse_issue") =>
        /\ result.token.ok <=> (\E i \in 1..Len(args.token) : IsDigit(args.token[i]))
        /\ result.catalog.ok <=> (\E i \in 1..Len(args.token) : IsDigit(args.token[i]))
        /\ InIssueGrammar(args.token) =>
              /\ result.token = IssueOfGrammar(args.token)
              /\ result.catalog = IssueOfGrammar(args.token)
        /\ result.token = result.catalog

(***************************************************************************)
(* Where a long title is cut                                               *)
(***************************************************************************)
\* A word of the title ends at position i.
WordEndsAt(title, i) ==
    /\ i \in 1..Len(title)
    /\ ~IsSpace(title[i])
    /\ i < Len(title) => IsSpace(title[i + 1])

\* The written text is the title up to the end of one of its words.
EndsAtWordBoundary(written, title) ==
    /\ Len(written) <= Len(title)
    /\ written = SubSeq(title, 1, Len(written))
    /\ WordEndsAt(title, Len(written))

\* C26: a title of more than 80 characters that has a word ending at or
\* before position 80 is written with at most 80 characters and ends where
\* a word of the assembled title ends.
C26_TitleCutAtWordBoundary ==
    ( /\ Returned("_build_title")
      /\ Len(JoinedTitle(args.row)) > MaxTitleLen
      /\ \E i \in 1..MaxTitleLen : WordEndsAt(JoinedTitle(args.row), i) )
    => /\ Len(result) <= MaxTitleLen
       /\ EndsAtWordBoundary(result, JoinedTitle(args.row))

(***************************************************************************)
(* What one allocate_images run leaves behind                              *)
(***************************************************************************)
\* The positions of the records and of the assets with a key, and the
\* records of that key in the matched list.
RecordsOfKey(key) == { i \in 1..Len(comics) : KeyOf(comics[i]) = key }
AssetsOfKey(key) == { j \in 1..Len(images) : KeyOf(images[j]) = key }
MatchedOfKey(key) == RecordsOfKey(key) \cap Range(matched)

Smaller(a, b) == IF a <= b THEN a ELSE b

\* C27: at the end of an allocate_images run that started with every asset
\* unused, no record failed with NO_MATCHING_IMAGE shares its key with an
\* asset that is still unused; for every key the matched records are as
\* many as the smaller of the number of records and the number of assets of
\* that key, and they are the earliest of the key in input order.
C27_NoUsableAssetLeft ==
    pc = "allocated" =>
        /\ \A k \in 1..Len(failed) :
              comics[failed[k]].failure_reason = S_NO_MATCHING_IMAGE =>
                 \A j \in AssetsOfKey(KeyOf(comics[failed[k]])) : images[j].used
        /\ \A i \in 1..Len(comics) :
              /\ Cardinality(MatchedOfKey(KeyOf(comics[i]))) =
                     Smaller(Cardinality(RecordsOfKey(KeyOf(comics[i]))),
                             Cardinality(AssetsOfKey(KeyOf(comics[i]))))
              /\ i \in Range(matched) =>
                     \A h \in RecordsOfKey(KeyOf(comics[i])) :
                         h < i => h \in Range(matched)

\* A run with three records of one key, one of them failed, and two assets
\* of that key, and with one record and one asset of another key.
C27_Witness ==
    /\ pc = "allocated"
    /\ \E i \in 1..Len(comics) :
          /\ Cardinality(RecordsOfKey(KeyOf(comics[i]))) = 3
          /\ Cardinality(AssetsOfKey(KeyOf(comics[i]))) = 2
          /\ i \in Range(failed)
    /\ \E i \in 1..Len(comics) :
          /\ Cardinality(RecordsOfKey(KeyOf(comics[i]))) = 1
          /\ Cardinality(AssetsOfKey(KeyOf(comics[i]))) = 1

(***************************************************************************)
(* The two ledgers of an AllocationResult                                  *)
(***************************************************************************)
\* Asset a is under record id r in one ledger exactly when it is in the
\* other, and the records of ledger_comic_to_images are those of matched.
LedgersAgree ==
    /\ \A a \in DOMAIN ledger_image_to_comic :
          /\ ledger_image_to_comic[a] \in DOMAIN ledger_comic_to_images
          /\ a \in Range(ledger_comic_to_images[ledger_image_to_comic[a]])
    /\ \A r \in DOMAIN ledger_comic_to_images :
          \A a \in Range(ledger_comic_to_images[r]) :
              /\ a \in DOMAIN ledger_image_to_comic
              /\ ledger_image_to_comic[a] = r
    /\ DOMAIN ledger_comic_to_images =
          { comics[matched[k]].id : k \in 1..Len(matched) }

\* C28: in every allocate_images run the two ledgers hold the same pairs,
\* the records of ledger_comic_to_images are exactly those of matched, and
\* ledger_image_to_comic, empty when the run starts, gains an asset exactly
\* when that asset is marked used.
C28_LedgersConsistent ==
    /\ [](pc \in {"allocate", "allocated"} => LedgersAgree)
    /\ [][ /\ (pc # "allocate" /\ pc' = "allocate") =>
                  ledger_image_to_comic' = << >>
           /\ (pc = "allocate") =>
                  (DOMAIN ledger_image_to_comic') \ DOMAIN ledger_image_to_comic
                      = UsedIds' \ UsedIds ]_vars

\* A second run has returned: it matched a record, and an asset that an
\* earlier run marked used is in no ledger.
C28_Witness ==
    /\ pc = "allocated"
    /\ matched # << >>
    /\ DOMAIN ledger_image_to_comic # {}
    /\ DOMAIN ledger_image_to_comic # UsedIds

(***************************************************************************)
(* Records and images of a matched group                                   *)
(***************************************************************************)
\* w is a run of consecutive characters of t.
HasInfix(t, w) ==
    \E i \in 0..(Len(t) - Len(w)) : SubSeq(t, i + 1, i + Len(w)) = w

\* The position in ebay_rows of the copy of the record with this id.
ReadyPosition(id) == CHOOSE p \in 1..Len(ebay_rows) : ebay_rows[p].id = id

\* The hosted images of a group's key, as the run holds them.
ImagesOfGroup(g) == ImagesFor(images_by_key, g.key)

\* The k-th record of matched group g has the k-th image of the key, carries
\* "Cvr" and that image's tag as title suffix and in its written title, and
\* its own cover letter at the end of its SKU.
PairedByPosition(g, k) ==
    LET rec == ebay_rows[ReadyPosition(comics[g.members[k]].id)]
        img == ImagesOfGroup(g)[k]
        written == ReadyRows[ReadyPosition(comics[g.members[k]].id)]
    IN /\ rec.image_url = img.url
       /\ written[PICURL_COLUMN_INDEX + 1] = img.url \o <<"|">>
       /\ rec.title_suffix = S_Cvr \o Upper(img.variant)
       /\ Len(JoinedTitle(rec)) <= MaxTitleLen =>
             HasInfix(written[TITLE_COLUMN_INDEX + 1],
                      <<"#">> \o ToStr(rec.issue_number) \o <<" ">>
                          \o S_Cvr \o Upper(img.variant))
       /\ HasInfix(written[2] \o <<"$">>,
                   Upper(comics[g.members[k]].issue_suffix) \o <<"$">>)

\* C29: in a matched group of more than one record the i-th record in
\* catalog order receives the i-th image of the key in variant order, and
\* its title suffix is "Cvr" and that image's variant tag whatever the
\* record's own issue suffix, which its SKU carries; the record of a matched
\* single-record group has an empty title suffix.
C29_PairedByPosition ==
    (pc = "done_ebay" /\ ebay_ready_csv # NoReadyFile) =>
        \A gi \in 1..Len(groups) :
            GroupSelection(groups[gi]).ok =>
               IF Len(groups[gi].members) > 1
               THEN /\ \A a, b \in 1..Len(groups[gi].members) :
                          a < b => StrLess(ImagesOfGroup(groups[gi])[a].variant,
                                           ImagesOfGroup(groups[gi])[b].variant)
                    /\ \A a, b \in 1..Len(groups[gi].members) :
                          a < b => groups[gi].members[a] < groups[gi].members[b]
                    /\ \A k \in 1..Len(groups[gi].members) :
                          PairedByPosition(groups[gi], k)
               ELSE /\ ebay_rows[ReadyPosition(
                           comics[groups[gi].members[1]].id)].title_suffix = E
                    /\ ~HasInfix(ReadyRows[ReadyPosition(
                           comics[groups[gi].members[1]].id)][TITLE_COLUMN_INDEX + 1],
                                 S_Cvr)

\* A written group of two records that both carry cover letter A, the
\* second written with the title suffix "Cvr B".
C29_Witness ==
    /\ pc = "done_ebay"
    /\ Len(ReadyRows) = 2
    /\ Len(groups) = 1
    /\ comics[2].issue_suffix = <<"A">>
    /\ ebay_rows[2].title_suffix = <<"C","v","r"," ","B">>

(***************************************************************************)
(* The key of a scraped image and the key of its catalog row               *)
(***************************************************************************)
\* C30: for a series text and an issue text whose catalog row load_clz_csv
\* reads as a record with a parsed issue, the file name build_filename
\* gives the image parses, and to the record's match key
\* (series_norm, volume, issue_number).
C30_CatalogAndImageKeyAgree ==
    ( /\ Returned("build_filename")
      /\ result.catalog # << >>
      /\ result.catalog[1].status = "PENDING" )
    => /\ result.image.ok
       /\ KeyOf(result.image) = KeyOf(result.catalog[1])
====
